---- MODULE Spec2Model ----
(***************************************************************************)
(* State-machine model of the trading bot's scheduler / settlement loop.   *)
(*                                                                         *)
(*   backend/core/scheduler.py   scan_and_trade_job, settlement_job,       *)
(*                               start_scheduler, run_manual_*             *)
(*   backend/core/settlement.py  parse_market_ticker, calculate_pnl,       *)
(*                               check_market_settlement,                  *)
(*                               settle_pending_trades,                    *)
(*                               update_bot_state_with_settlements         *)
(*   backend/api/main.py         startup, simulate_trade, run_scan,        *)
(*                               settle_trades_endpoint, start/stop_bot    *)
(*                                                                         *)
(* Money is kept in integer cents, prices and edges in integer percent.    *)
(* All coroutines run on one event loop: a step of the model is the code   *)
(* that runs between two suspension points (real network awaits).          *)
(* An optional Python value is a sequence: <<>> is None, <<v>> is v.       *)
(***************************************************************************)
EXTENDS Integers, Sequences, FiniteSets, TLC

\* ------------------------------------------------------------------ bounds
\* rows the Trade table may hold
MaxTrades == 2
\* signals one scan_for_signals() call returns
MaxSignals == 2
\* scans in flight that were started by a direct call (startup task, /api/run-scan)
MaxDirectScans == 1
\* the clock runs from 0 to MaxClock seconds
MaxClock == 90
\* rows the Signal table may hold
MaxSignalRows == 4
\* log_event calls in one behaviour
MaxLogged == 203
MaxSlugTicks == 320
MaxCapSignals == 8

\* ------------------------------------------------------- program constants
\* settings.INITIAL_BANKROLL = 10000.0 dollars, in cents
INITIAL_BANKROLL == 1000000
\* settings.MIN_EDGE_THRESHOLD = 0.03, in percent
MIN_EDGE_THRESHOLD == 3
\* settings.MAX_TRADES_PER_CATEGORY
MAX_TRADES_PER_CATEGORY == 10
\* settings.MAX_TOTAL_PENDING_TRADES: an environment-overridable setting
\* (default 50); instantiated at 1 so that the cap is reachable within MaxTrades.
MAX_TOTAL_PENDING_TRADES == 1
\* scan_and_trade_job locals
MAX_TRADES_PER_SCAN == 5
\* MIN_TRADE_SIZE = 20 dollars, in cents
MIN_TRADE_SIZE == 2000
\* MAX_TRADE_FRACTION = 0.05, in percent
MAX_TRADE_FRACTION == 5
\* max_instances=1 of every scheduler.add_job call
MAX_INSTANCES == 1
\* scheduler.MAX_LOG_SIZE
MAX_LOG_SIZE == 200

None == <<>>
Some(x) == <<x>>

Min(a, b) == IF a <= b THEN a ELSE b
Max(a, b) == IF a >= b THEN a ELSE b
Abs(a) == IF a < 0 THEN -a ELSE a

\* --------------------------------------------------------------- tickers
\* A market ticker is kept with the parts parse_market_ticker and the date
\* regex of check_market_settlement can find in its text.
\*   "KXHIGHNYC-26FEB10-T45": city nyc, T45, HIGH, dated
\*   "540817":                a numeric venue market id (BTC 5-minute market)
\* category is the market's category attribute ('other' when it has none).
WeatherTicker ==
    [id |-> "KXHIGHNYC-26FEB10-T45", city |-> Some("nyc"), threshold |-> Some(45),
     series |-> "HIGH", dated |-> TRUE, category |-> "weather"]
BtcTicker ==
    [id |-> "540817", city |-> None, threshold |-> None, series |-> "", dated |-> FALSE,
     category |-> "other"]
Tickers == {WeatherTicker, BtcTicker}

\* what the venue can publish for a market: the closed flag and the first
\* outcome price, in percent
VenueStates == [closed : BOOLEAN, up_price : {0, 50, 100}]

\* temperatures fetch_weather_actual may report around the threshold
ActualTemps == {None, Some(44), Some(45)}

\* signal.direction: "yes"/"no" on weather markets, "up"/"down" on BTC markets
DirectionsOf(ticker) == IF ticker.category = "weather" THEN {"yes", "no"} ELSE {"up", "down"}

VARIABLES
    trades,        \* the Trade table: row i has id i
    state,         \* the BotState row
    scanning,      \* scan_and_trade_job instances in flight, by launcher
    last_scan,     \* last event logged by the most recent scan's trade section
    run,           \* settlement runs, by launcher
    matured,       \* tickers whose market date + 24 h has passed
    venue,         \* what the venue publishes for each market (never read by the code)
    credited       \* history: times each trade's pnl was added to the bankroll

\* the signal engine, the window catalog, the Signal table and the event log.
\* The trading specifications (Spec, SpecSeq, SpecPnl, SpecVenue) take the
\* signals of a scan as an input and do not track these: there they keep
\* their initial values.  The specifications further down are about them.
VARIABLES
    clock,         \* datetime.utcnow(), in seconds
    signals_db,    \* the Signal table
    event_log,     \* scheduler.event_log
    market,        \* the BtcMarket handed to generate_btc_signal
    candles,       \* the klines fetch_binance_klines() returned (<<>>: left open)
    micro,         \* what compute_btc_microstructure() returned
    generated,     \* what generate_btc_signal returned (None before the call)
    slugs,         \* what _compute_window_slugs() returned
    skipped,       \* history: signals _persist_signals skipped as duplicates
    fault_event,   \* history: the last settlement or heartbeat invocation that hit a
                   \* failure, and the failure
    kline_cache,   \* crypto._kline_cache
    kline_calls,   \* each caller of fetch_binance_klines: where it is in the call
    listing,       \* what fetch_active_btc_markets() did (None before the call)
    ws,            \* the handler of one /ws/events connection, and what it sent
    recent         \* what get_recent_events returned (None before the call)

trading_vars == <<trades, state, scanning, last_scan, run, matured, venue, credited>>

engine_vars == <<clock, signals_db, event_log, market, candles, micro, generated, slugs,
                 skipped, fault_event,
                kline_cache, kline_calls, listing, ws, recent>>

vars == <<trades, state, scanning, last_scan, run, matured, venue, credited,
          clock, signals_db, event_log, market, candles, micro, generated, slugs, skipped,
          fault_event, kline_cache, kline_calls, listing, ws, recent>>

\* no job has failed yet
NoFault == [job |-> "none", fault |-> "none", launcher |-> "none", seq |-> 0]

\* _kline_cache as the module is loaded: {"data": None, "ts": 0.0}
EmptyCache == [data |-> None, ts |-> 0, source |-> "none"]

\* the coroutines that call fetch_binance_klines: the scan job's signal
\* engine and a request handler
KlineCallers == {"scan", "api"}

\* not inside fetch_binance_klines
IdleCall == [pc |-> "idle", now |-> 0, tried |-> 0]

\* no /ws/events connection
NoClient == [pc |-> "closed", last_event_count |-> 0, connected_at |-> 0, delivered |-> 0,
             missed |-> FALSE, repeated |-> FALSE]

\* nothing scanned, persisted or logged yet
EngineIdle ==
    /\ clock = 0
    /\ signals_db = <<>>
    /\ event_log = <<>>
    /\ market = None
    /\ candles = <<>>
    /\ micro = None
    /\ generated = None
    /\ slugs = <<>>
    /\ skipped = 0
    /\ fault_event = NoFault
    /\ kline_cache = EmptyCache
    /\ kline_calls = [c \in KlineCallers |-> IdleCall]
    /\ listing = None
    /\ ws = NoClient
    /\ recent = None

Launchers == {"sched", "direct"}

Categories == {t.category : t \in Tickers}

\* ------------------------------------------------------ pure functions
\* round(x, 2) on an amount of n/d cents: nearest cent, ties to even
RoundCents(n, d) ==
    LET q == n \div d
        r == n % d
    IN  IF 2 * r < d THEN q
        ELSE IF 2 * r > d THEN q + 1
        ELSE IF q % 2 = 0 THEN q ELSE q + 1

\* parse_market_ticker: <<city, threshold, direction>>, None where not found
parse_market_ticker(ticker) ==
    <<ticker.city,
      ticker.threshold,
      IF ticker.series = "HIGH" THEN Some("above")
      ELSE IF ticker.series = "LOW" THEN Some("below")
      ELSE None>>

\* all([city, threshold, direction]): Python truthiness (None, '' and 0 are false)
AllParsed(parsed) ==
    /\ parsed[1] # None /\ parsed[1] # Some("")
    /\ parsed[2] # None /\ parsed[2] # Some(0)
    /\ parsed[3] # None

\* calculate_pnl: only direction == "yes" takes the YES branch
calculate_pnl(trade, settlement_value) ==
    LET raw == IF trade.direction = "yes"
               THEN IF settlement_value = 1
                    THEN trade.size * (100 - trade.entry_price)
                    ELSE -(trade.size * trade.entry_price)
               ELSE IF settlement_value = 0
                    THEN trade.size * (100 - trade.entry_price)
                    ELSE -(trade.size * trade.entry_price)
    IN  RoundCents(raw, 100)

\* trade.result from pnl (settle_pending_trades)
ResultOf(pnl) ==
    IF pnl # None /\ pnl[1] > 0 THEN "win"
    ELSE IF pnl # None /\ pnl[1] < 0 THEN "loss"
    ELSE "push"

\* TradingSignal.passes_threshold
passes_threshold(s) == Abs(s.edge) >= MIN_EDGE_THRESHOLD

\* actionable = [s for s in signals if s.passes_threshold]
Actionable(signals) == SelectSeq(signals, passes_threshold)

\* ------------------------------------------------------------ Trade rows
\* column defaults of a new Trade row
TradeDefaults ==
    [settled |-> FALSE, settlement_value |-> None, pnl |-> None, result |-> "pending"]

\* Trade(market_ticker=..., direction=..., entry_price=..., size=...)
NewTrade(signal, size) ==
    [market_ticker |-> signal.ticker,
     direction |-> signal.direction,
     entry_price |-> IF signal.direction = "yes"
                     THEN signal.yes_price ELSE 100 - signal.yes_price,
     size |-> size,
     model_probability |-> signal.model_probability,
     settled |-> TradeDefaults.settled,
     settlement_value |-> TradeDefaults.settlement_value,
     pnl |-> TradeDefaults.pnl,
     result |-> TradeDefaults.result]

\* db.query(Trade).filter(Trade.settled == False): ids of the rows
PendingIds(tr) == {i \in DOMAIN tr : ~tr[i].settled}

\* .count() of the pending query
PendingCount(tr) == Cardinality(PendingIds(tr))

\* the dedup query: a pending trade for this market_ticker exists
ExistingPending(tr, ticker) ==
    \E i \in PendingIds(tr) : tr[i].market_ticker = ticker

\* ids of a set in ascending order (the order .all() returns rows)
RECURSIVE SortedIds(_)
SortedIds(S) ==
    IF S = {} THEN <<>>
    ELSE LET m == CHOOSE x \in S : \A y \in S : x <= y
         IN  <<m>> \o SortedIds(S \ {m})

\* ------------------------------------------------- scan_and_trade_job
\* what scan_for_signals() can return: at most MaxSignals signals, one per
\* market, sorted by |edge| descending
Signals ==
    {s \in [ticker : Tickers, direction : {"yes", "no", "up", "down"}, yes_price : {60},
            edge : {0, 5}, suggested_size : {5000}, model_probability : {5500}] :
        s.direction \in DirectionsOf(s.ticker)}

SignalLists ==
    {<<>>} \cup
    UNION {{sl \in [1..n -> Signals] :
              /\ \A i, j \in 1..n : i # j => sl[i].ticker # sl[j].ticker
              /\ \A i, j \in 1..n : i < j => Abs(sl[i].edge) >= Abs(sl[j].edge)}
           : n \in 1..MaxSignals}

\* trade_size = max(min(suggested_size, bankroll * MAX_TRADE_FRACTION), MIN_TRADE_SIZE)
TradeSize(signal, bankroll) ==
    Max(Min(signal.suggested_size, (bankroll * MAX_TRADE_FRACTION) \div 100),
        MIN_TRADE_SIZE)

\* mutant of TradeLoop: the trades_executed >= MAX_TRADES_PER_SCAN break dropped
RECURSIVE TradeLoopNoCap(_, _, _, _, _, _)
TradeLoopNoCap(sigs, i, tr, executed, cats, bankroll) ==
    IF i > Len(sigs) THEN [trades |-> tr, executed |-> executed]
    ELSE
      LET signal == sigs[i]
          cat == signal.ticker.category
      IN  IF cats[cat] >= MAX_TRADES_PER_CATEGORY
            THEN TradeLoopNoCap(sigs, i + 1, tr, executed, cats, bankroll)
          ELSE IF ExistingPending(tr, signal.ticker)
            THEN TradeLoopNoCap(sigs, i + 1, tr, executed, cats, bankroll)
          ELSE IF bankroll < MIN_TRADE_SIZE
            THEN [trades |-> tr, executed |-> executed]
          ELSE TradeLoopNoCap(sigs, i + 1,
                              Append(tr, NewTrade(signal, TradeSize(signal, bankroll))),
                              executed + 1,
                              [cats EXCEPT ![cat] = @ + 1],
                              bankroll)

\* the for-loop over actionable[:MAX_TRADES_PER_SCAN * 2], from position i;
\* tr is the table as the session sees it, cats the per-category counts
RECURSIVE TradeLoop(_, _, _, _, _, _)
TradeLoop(sigs, i, tr, executed, cats, bankroll) ==
    IF i > Len(sigs) THEN [trades |-> tr, executed |-> executed]
    ELSE
      LET signal == sigs[i]
          cat == signal.ticker.category
      IN  IF cats[cat] >= MAX_TRADES_PER_CATEGORY
            THEN TradeLoop(sigs, i + 1, tr, executed, cats, bankroll)
          ELSE IF ExistingPending(tr, signal.ticker)
            THEN TradeLoop(sigs, i + 1, tr, executed, cats, bankroll)
          ELSE IF bankroll < MIN_TRADE_SIZE
            THEN [trades |-> tr, executed |-> executed]
          ELSE IF executed >= MAX_TRADES_PER_SCAN
            THEN [trades |-> tr, executed |-> executed]
          ELSE TradeLoop(sigs, i + 1,
                         Append(tr, NewTrade(signal, TradeSize(signal, bankroll))),
                         executed + 1,
                         [cats EXCEPT ![cat] = @ + 1],
                         bankroll)

\* actionable[:MAX_TRADES_PER_SCAN * 2]
Head10(sigs) == SubSeq(sigs, 1, Min(Len(sigs), MAX_TRADES_PER_SCAN * 2))

\* mutant of BotPaused: the is_running gate dropped
BotPausedNever(st) == FALSE

\* if not state.is_running: skip trades
BotPaused(st) == ~st.is_running

\* the part of scan_and_trade_job after `await scan_for_signals()`: it has no
\* suspension point, so it is one step.  Result: the table, the BotState row
\* and the last event logged.
ScanTrade(signals, tr, st) ==
    LET actionable == Actionable(signals)
        same(msg) == [trades |-> tr, state |-> st, event |-> msg]
    IN  IF actionable = <<>> THEN same("no_actionable")
        ELSE IF BotPaused(st) THEN same("paused")
        ELSE IF PendingCount(tr) >= MAX_TOTAL_PENDING_TRADES THEN same("max_pending")
        ELSE LET r == TradeLoop(Head10(actionable), 1, tr, 0,
                                [c \in Categories |-> 0], st.bankroll)
             IN  [trades |-> r.trades,
                  state |-> [st EXCEPT !.total_trades = @ + r.executed],
                  event |-> IF r.executed > 0 THEN "executed" ELSE "no_new"]

\* ---------------------------------------------------------- settlement
IdleRun == [pc |-> "idle", pending |-> <<>>, idx |-> 0, settled |-> <<>>]

\* mutant of SettleQuery: the settled == False filter dropped
SettleQueryAll(tr) == SortedIds(DOMAIN tr)

\* pending = db.query(Trade).filter(Trade.settled == False).all()
SettleQuery(tr) == SortedIds(PendingIds(tr))

\* random.seed(trade.id), then noise = random.uniform(-0.1, 0.1) and the draw of
\* random.random(): CPython's values for ids 1..6, in units of 1/10000
SeededDraws ==
    <<[noise |-> -731, draw |-> 8474], [noise |-> 912, draw |-> 9478],
      [noise |-> -524, draw |-> 5442], [noise |-> -528, draw |-> 1032],
      [noise |-> 246, draw |-> 7418], [noise |-> 587, draw |-> 8220]>>

\* simulate_weather_actual: 1.0 if random.random() < clamp(base_prob + noise)
simulate_weather_actual(id, trade) ==
    LET final_prob == Max(0, Min(10000, trade.model_probability + SeededDraws[id].noise))
    IN  IF SeededDraws[id].draw < final_prob THEN 1 ELSE 0

\* check_market_settlement up to its first suspension point: "simulate" (ticker
\* not parsed), "not_yet" (market date + 24 h not reached) or "fetch" (the await
\* of fetch_weather_actual).  Every parsed ticker of Tickers carries a date.
CheckKind(trade) ==
    IF ~AllParsed(parse_market_ticker(trade.market_ticker)) THEN "simulate"
    ELSE IF trade.market_ticker \in matured THEN "fetch"
    ELSE "not_yet"

\* check_market_settlement after fetch_weather_actual returned `actual`;
\* old: the trade is more than 12 hours old.  None: not settled.
FetchOutcome(id, trade, actual, old) ==
    LET parsed == parse_market_ticker(trade.market_ticker)
        threshold == parsed[2][1]
    IN  IF actual # None
        THEN IF parsed[3] = Some("above")
             THEN Some(IF actual[1] >= threshold THEN 1 ELSE 0)
             ELSE Some(IF actual[1] < threshold THEN 1 ELSE 0)
        ELSE IF old THEN Some(simulate_weather_actual(id, trade))
        ELSE None

\* the assignments settle_pending_trades makes to a trade of its session
SettledEntry(id, trade, settlement_value) ==
    LET pnl == Some(calculate_pnl(trade, settlement_value))
    IN  [id |-> id, settlement_value |-> Some(settlement_value), pnl |-> pnl,
         result |-> ResultOf(pnl)]

\* the for-loop of settle_pending_trades from position i up to the next
\* suspension point or the end of the list
RECURSIVE SettleLoop(_, _, _)
SettleLoop(pend, i, done) ==
    IF i > Len(pend) THEN [idx |-> i, settled |-> done, suspended |-> FALSE]
    ELSE
      LET trade == trades[pend[i]]
          kind == CheckKind(trade)
      IN  IF kind = "simulate"
            THEN SettleLoop(pend, i + 1,
                            Append(done, SettledEntry(pend[i], trade,
                                                     simulate_weather_actual(pend[i], trade))))
          ELSE IF kind = "not_yet"
            THEN SettleLoop(pend, i + 1, done)
          ELSE [idx |-> i, settled |-> done, suspended |-> TRUE]

\* db.commit() of settle_pending_trades: the session's rows overwrite the table's
Commit(tr, done) ==
    [i \in DOMAIN tr |->
        IF \E k \in DOMAIN done : done[k].id = i
        THEN LET e == done[CHOOSE k \in DOMAIN done : done[k].id = i]
             IN  [tr[i] EXCEPT !.settled = TRUE,
                               !.settlement_value = e.settlement_value,
                               !.pnl = e.pnl,
                               !.result = e.result]
        ELSE tr[i]]

\* update_bot_state_with_settlements: the loop over settled_trades from k
RECURSIVE ApplySettlements(_, _, _)
ApplySettlements(st, done, k) ==
    IF k > Len(done) THEN st
    ELSE LET e == done[k]
             st1 == IF e.pnl # None
                    THEN [st EXCEPT !.total_pnl = @ + e.pnl[1],
                                    !.bankroll = @ + e.pnl[1],
                                    !.winning_trades =
                                        IF e.result = "win" THEN @ + 1 ELSE @]
                    ELSE st
         IN  ApplySettlements(st1, done, k + 1)

\* ---------------------------------------------------------------- Init
\* main.py startup(): BotState row created with is_running=True, scheduler
\* started, and start_scheduler's asyncio.create_task(scan_and_trade_job())
\* already in flight.
Init ==
    /\ trades = <<>>
    /\ state = [bankroll |-> INITIAL_BANKROLL, total_trades |-> 0,
                winning_trades |-> 0, total_pnl |-> 0, is_running |-> TRUE]
    /\ scanning = [l \in Launchers |-> IF l = "direct" THEN 1 ELSE 0]
    /\ last_scan = "none"
    /\ run = [l \in Launchers |-> IdleRun]
    /\ matured = {}
    /\ venue = [t \in Tickers |-> [closed |-> FALSE, up_price |-> 50]]
    /\ credited = [i \in 1..MaxTrades |-> 0]
    /\ EngineIdle

\* ------------------------------------------------------------- actions
\* the IntervalTrigger of "market_scan" fires; with max_instances instances
\* already running the tick is skipped
ScanTick ==
    /\ scanning["sched"] < MAX_INSTANCES
    /\ scanning' = [scanning EXCEPT !["sched"] = @ + 1]
    /\ UNCHANGED <<trades, state, last_scan, run, matured, venue, credited>>
    /\ UNCHANGED engine_vars

\* run_manual_scan() from /api/run-scan: scan_and_trade_job called directly
ScanDirect ==
    /\ scanning["direct"] < MaxDirectScans
    /\ scanning' = [scanning EXCEPT !["direct"] = @ + 1]
    /\ UNCHANGED <<trades, state, last_scan, run, matured, venue, credited>>
    /\ UNCHANGED engine_vars

\* scan_and_trade_job resumes from `await scan_for_signals()` with `signals`
ScanFinish(l, signals) ==
    /\ scanning[l] > 0
    /\ LET r == ScanTrade(signals, trades, state)
       IN  /\ Len(r.trades) <= MaxTrades
           /\ trades' = r.trades
           /\ state' = r.state
           /\ last_scan' = r.event
    /\ scanning' = [scanning EXCEPT ![l] = @ - 1]
    /\ UNCHANGED <<run, matured, venue, credited>>
    /\ UNCHANGED engine_vars

\* POST /api/simulate-trade, after its `await scan_for_signals()` found `signal`
SimulateTrade(signal) ==
    /\ Len(trades) < MaxTrades
    /\ trades' = Append(trades,
                        NewTrade(signal,
                                 Min(signal.suggested_size,
                                     (state.bankroll * MAX_TRADE_FRACTION) \div 100)))
    /\ state' = [state EXCEPT !.total_trades = @ + 1]
    /\ UNCHANGED <<scanning, last_scan, run, matured, venue, credited>>
    /\ UNCHANGED engine_vars

\* POST /api/bot/stop
StopBot ==
    /\ state' = [state EXCEPT !.is_running = FALSE]
    /\ UNCHANGED <<trades, scanning, last_scan, run, matured, venue, credited>>
    /\ UNCHANGED engine_vars

\* POST /api/bot/start
StartBot ==
    /\ state' = [state EXCEPT !.is_running = TRUE]
    /\ UNCHANGED <<trades, scanning, last_scan, run, matured, venue, credited>>
    /\ UNCHANGED engine_vars

\* time passes: datetime.utcnow() reaches market_date + 24 h of a dated ticker
Mature(ticker) ==
    /\ ticker.dated
    /\ ticker \notin matured
    /\ matured' = matured \cup {ticker}
    /\ UNCHANGED <<trades, state, scanning, last_scan, run, venue, credited>>
    /\ UNCHANGED engine_vars

\* the end of a settlement run: commit of settle_pending_trades, then
\* update_bot_state_with_settlements (neither suspends)
Finish(r, done) ==
    /\ trades' = IF done = <<>> THEN trades ELSE Commit(trades, done)
    /\ state' = ApplySettlements(state, done, 1)
    /\ credited' = [i \in DOMAIN credited |->
                      IF \E k \in DOMAIN done : done[k].id = i /\ done[k].pnl # None
                      THEN credited[i] + 1 ELSE credited[i]]
    /\ run' = [run EXCEPT ![r] = IdleRun]

\* the loop ran from position i with `done` settled so far
Continue(r, pend, i, done) ==
    LET res == SettleLoop(pend, i, done)
    IN  IF res.suspended
        THEN /\ run' = [run EXCEPT ![r] = [pc |-> "await", pending |-> pend,
                                           idx |-> res.idx, settled |-> res.settled]]
             /\ UNCHANGED <<trades, state, credited>>
        ELSE Finish(r, res.settled)

\* mutant of SettleStart: settlement gated by BotState.is_running, as the
\* trade section of the scan job is
SettleStartGated(r, exclusive) ==
    /\ state.is_running
    /\ run[r].pc = "idle"
    /\ exclusive => \A q \in Launchers : run[q].pc = "idle"
    /\ IF r = "sched" /\ PendingCount(trades) = 0
       THEN UNCHANGED <<trades, state, run, credited>>
       ELSE Continue(r, SettleQuery(trades), 1, <<>>)
    /\ UNCHANGED <<scanning, last_scan, matured, venue>>
    /\ UNCHANGED engine_vars

\* a settlement run begins: settlement_job by the "settlement_check" trigger
\* (r = "sched", which returns at once when the pending count is 0), or
\* POST /api/settle-trades / run_manual_settlement (r = "direct").
\* exclusive: the run begins only when no other settlement run is in flight.
SettleStart(r, exclusive) ==
    /\ run[r].pc = "idle"
    /\ exclusive => \A q \in Launchers : run[q].pc = "idle"
    /\ IF r = "sched" /\ PendingCount(trades) = 0
       THEN UNCHANGED <<trades, state, run, credited>>
       ELSE Continue(r, SettleQuery(trades), 1, <<>>)
    /\ UNCHANGED <<scanning, last_scan, matured, venue>>
    /\ UNCHANGED engine_vars

\* a run resumes from `await fetch_weather_actual(...)` of the trade at idx
SettleResume(r, actual, old) ==
    /\ run[r].pc = "await"
    /\ LET id == run[r].pending[run[r].idx]
           trade == trades[id]
           outcome == FetchOutcome(id, trade, actual, old)
           done == IF outcome = None THEN run[r].settled
                   ELSE Append(run[r].settled, SettledEntry(id, trade, outcome[1]))
       IN  Continue(r, run[r].pending, run[r].idx + 1, done)
    /\ UNCHANGED <<scanning, last_scan, matured, venue>>
    /\ UNCHANGED engine_vars

\* the venue publishes a new price for a market, or closes it (a closed market
\* stays closed)
VenuePublish(ticker, v) ==
    /\ ~venue[ticker].closed
    /\ v # venue[ticker]
    /\ venue' = [venue EXCEPT ![ticker] = v]
    /\ UNCHANGED <<trades, state, scanning, last_scan, run, matured, credited>>
    /\ UNCHANGED engine_vars

\* settle_pending_trades + update_bot_state_with_settlements when
\* check_market_settlement returns (True, settlement_value, pnl) for every
\* pending trade
SettleDecided(settlement_value) ==
    /\ PendingIds(trades) # {}
    /\ \A r \in Launchers : run[r].pc = "idle"
    /\ LET pend == SettleQuery(trades)
       IN  Finish("direct",
                  [k \in DOMAIN pend |->
                      SettledEntry(pend[k], trades[pend[k]], settlement_value)])
    /\ UNCHANGED <<scanning, last_scan, matured, venue>>
    /\ UNCHANGED engine_vars

Trading ==
    \/ ScanTick
    \/ ScanDirect
    \/ \E l \in Launchers : \E signals \in SignalLists : ScanFinish(l, signals)
    \/ \E signal \in Signals : SimulateTrade(signal)
    \/ StopBot
    \/ StartBot
    \/ \E ticker \in Tickers : Mature(ticker)

Next ==
    \/ Trading
    \/ \E r \in Launchers : SettleStart(r, FALSE)
    \/ \E r \in Launchers : \E actual \in ActualTemps : \E old \in BOOLEAN :
          SettleResume(r, actual, old)

Spec == Init /\ [][Next]_vars

\* settlement runs one at a time
NextSeq ==
    \/ Trading
    \/ \E r \in Launchers : SettleStart(r, TRUE)
    \/ \E r \in Launchers : \E actual \in ActualTemps : \E old \in BOOLEAN :
          SettleResume(r, actual, old)

SpecSeq == Init /\ [][NextSeq]_vars

\* one settlement of one trade, over a range of directions, prices and sizes
PnlSignals ==
    [ticker : {BtcTicker}, direction : {"yes", "no", "up", "down"},
     yes_price : {40, 45, 55, 60}, edge : {5}, suggested_size : {2513, 2500, 5000},
     model_probability : {5500}]

\* the table holds one pending trade that a scan inserted
InitPnl ==
    /\ trades \in {<<NewTrade(sg, TradeSize(sg, INITIAL_BANKROLL))>> : sg \in PnlSignals}
    /\ state = [bankroll |-> INITIAL_BANKROLL, total_trades |-> 1,
                winning_trades |-> 0, total_pnl |-> 0, is_running |-> TRUE]
    /\ scanning = [l \in Launchers |-> 0]
    /\ last_scan = "executed"
    /\ run = [l \in Launchers |-> IdleRun]
    /\ matured = {}
    /\ venue = [t \in Tickers |-> [closed |-> FALSE, up_price |-> 50]]
    /\ credited = [i \in 1..MaxTrades |-> 0]
    /\ EngineIdle

NextPnl == \E settlement_value \in {0, 1} : SettleDecided(settlement_value)

SpecPnl == InitPnl /\ [][NextPnl]_vars

\* manual trades and settlement runs against a venue that publishes and closes
NextVenue ==
    \/ \E signal \in Signals : SimulateTrade(signal)
    \/ \E ticker \in Tickers : Mature(ticker)
    \/ \E ticker \in Tickers : \E v \in VenueStates : VenuePublish(ticker, v)
    \/ \E r \in Launchers : SettleStart(r, FALSE)
    \/ \E r \in Launchers : \E actual \in ActualTemps : \E old \in BOOLEAN :
          SettleResume(r, actual, old)

SpecVenue == Init /\ [][NextVenue]_vars

\* ------------------------------------------------------------- helpers
\* rows 1..k of the table that are settled with a pnl
RECURSIVE SumPnl(_, _)
SumPnl(tr, k) ==
    IF k = 0 THEN 0
    ELSE SumPnl(tr, k - 1) +
         (IF tr[k].settled /\ tr[k].pnl # None THEN tr[k].pnl[1] ELSE 0)

WinCount(tr) ==
    Cardinality({i \in DOMAIN tr : tr[i].settled /\ tr[i].pnl # None /\ tr[i].pnl[1] > 0})

\* losses realized so far (every behaviour of the model lies within one day)
RECURSIVE RealizedLoss(_, _)
RealizedLoss(tr, k) ==
    IF k = 0 THEN 0
    ELSE RealizedLoss(tr, k - 1) +
         (IF tr[k].settled /\ tr[k].pnl # None /\ tr[k].pnl[1] < 0
          THEN -tr[k].pnl[1] ELSE 0)

\* no scan and no settlement run is in flight
Quiescent ==
    /\ \A l \in Launchers : scanning[l] = 0
    /\ \A r \in Launchers : run[r].pc = "idle"

\* rows that this step settles
NewlySettled == {i \in DOMAIN trades : ~trades[i].settled /\ trades'[i].settled}

\* sum of the new pnl of the rows of S
RECURSIVE SumNewPnl(_, _)
SumNewPnl(tr, S) ==
    IF S = {} THEN 0
    ELSE LET i == CHOOSE x \in S : TRUE
         IN  (IF tr[i].pnl # None THEN tr[i].pnl[1] ELSE 0) + SumNewPnl(tr, S \ {i})

\* this step is the trade section of a scan_and_trade_job instance
ScanStep == \E l \in Launchers : scanning'[l] < scanning[l]

\* the daily loss limit of the configuration table, in cents
DAILY_LOSS_LIMIT == 2000

\* ---------------------------------------------------------------- claims

\* C1: P&L identity.  Whenever no job is in flight, bankroll = INITIAL_BANKROLL
\* + sum of pnl over the settled trades, total_pnl = that sum, and
\* winning_trades = number of settled trades with pnl > 0.
C1_PnlIdentity ==
    Quiescent =>
        /\ state.bankroll = INITIAL_BANKROLL + SumPnl(trades, Len(trades))
        /\ state.total_pnl = SumPnl(trades, Len(trades))
        /\ state.winning_trades = WinCount(trades)

\* C2: settlement idempotence.  With settlement runs one after another, a step
\* never changes a trade that is already settled, and bankroll, total_pnl and
\* winning_trades move by exactly the pnl / wins of the trades the step settles:
\* a further run over already-settled trades adds no delta.
C2_SettleIdempotent ==
    [][/\ \A i \in DOMAIN trades : trades[i].settled => trades'[i] = trades[i]
       /\ state'.bankroll - state.bankroll = SumNewPnl(trades', NewlySettled)
       /\ state'.total_pnl - state.total_pnl = SumNewPnl(trades', NewlySettled)
       /\ state'.winning_trades - state.winning_trades =
              Cardinality({i \in NewlySettled : trades'[i].result = "win"})]_vars

\* a later run is under way; a trade settled and credited before it began is
\* not among the trades it works on
C2_Witness ==
    \E r \in Launchers :
        /\ run[r].pc = "await"
        /\ \E i \in DOMAIN trades :
              /\ trades[i].settled
              /\ credited[i] = 1
              /\ \A k \in DOMAIN run[r].pending : run[r].pending[k] # i
              /\ state.bankroll = INITIAL_BANKROLL + trades[i].pnl[1]

\* C3: exactly-once settlement under overlap.  With settlement runs overlapping,
\* a settled trade is never rewritten and the pnl of every trade is added to
\* the bankroll at most once.
C3_ExactlyOnce ==
    [][/\ \A i \in DOMAIN trades : trades[i].settled => trades'[i] = trades[i]
       /\ \A i \in DOMAIN credited : credited'[i] <= 1]_vars

\* C4: at most one instance of a job is in flight, however it was launched.
C4_AtMostOneInstance ==
    /\ scanning["sched"] + scanning["direct"] <= 1
    /\ Cardinality({r \in Launchers : run[r].pc # "idle"}) <= 1

\* C5: per-event dedup.  No market has two unsettled trades.
C5_OneUnsettledPerMarket ==
    \A i, j \in DOMAIN trades :
        (i # j /\ ~trades[i].settled /\ ~trades[j].settled)
            => trades[i].market_ticker # trades[j].market_ticker

\* C6: exposure cap.  After a scan has inserted trades, the number of unsettled
\* trades does not exceed MAX_TOTAL_PENDING_TRADES.
C6_ExposureCap ==
    [][(ScanStep /\ Len(trades') > Len(trades))
          => PendingCount(trades') <= MAX_TOTAL_PENDING_TRADES]_vars

C8_DailyLossHalts ==
    [][RealizedLoss(trades, Len(trades)) >= DAILY_LOSS_LIMIT
          => Len(trades') = Len(trades)]_vars

\* C9: P&L formula.  direction in {up, yes}: settlement 1 gives size*(1-entry),
\* settlement 0 gives -size*entry; {down, no} mirrored; rounded to cents; the
\* result is win exactly when the pnl is positive.
C9_PnlFormula ==
    \A i \in DOMAIN trades :
        trades[i].settled =>
            LET t == trades[i]
                wins == IF t.direction \in {"up", "yes"}
                        THEN t.settlement_value = Some(1)
                        ELSE t.settlement_value = Some(0)
            IN  /\ t.pnl = Some(IF wins
                                THEN RoundCents(t.size * (100 - t.entry_price), 100)
                                ELSE RoundCents(-(t.size * t.entry_price), 100))
                /\ t.result = (IF wins THEN "win" ELSE "loss")
                /\ state.bankroll = INITIAL_BANKROLL + t.pnl[1]

\* C10: settlement is deferred until the venue has decided.  A trade becomes
\* settled only when its market is closed and the first outcome price is
\* >= 0.99 (settlement_value 1) or <= 0.01 (settlement_value 0).
C10_SettlesOnlyWhenDecided ==
    [][\A i \in NewlySettled :
          LET v == venue[trades[i].market_ticker]
          IN  /\ v.closed
              /\ \/ v.up_price >= 99 /\ trades'[i].settlement_value = Some(1)
                 \/ v.up_price <= 1 /\ trades'[i].settlement_value = Some(0)]_vars

\* sum of size over rows 1..k of the table that are unsettled
RECURSIVE OpenStake(_, _)
OpenStake(tr, k) ==
    IF k = 0 THEN 0
    ELSE OpenStake(tr, k - 1) + (IF tr[k].settled THEN 0 ELSE tr[k].size)

\* gains realized so far: sum of the positive pnl of the settled rows 1..k
RECURSIVE RealizedGain(_, _)
RealizedGain(tr, k) ==
    IF k = 0 THEN 0
    ELSE RealizedGain(tr, k - 1) +
         (IF tr[k].settled /\ tr[k].pnl # None /\ tr[k].pnl[1] > 0
          THEN tr[k].pnl[1] ELSE 0)

\* C11: bankroll accounting with open positions.  Whenever no job is in flight,
\* bankroll + sum of size over the unsettled trades + realized losses
\* = INITIAL_BANKROLL + realized gains.
C11_OpenStakeHeld ==
    Quiescent =>
        state.bankroll + OpenStake(trades, Len(trades))
            + RealizedLoss(trades, Len(trades))
          = INITIAL_BANKROLL + RealizedGain(trades, Len(trades))

\* ------------------------------------------------------ _persist_signals
\* venue market ids of two BTC 5-minute windows
MarketIds == {"540817", "540818"}

\* timestamp.replace(second=0, microsecond=0)
minute_floor(ts) == ts - (ts % 60)

\* the signals of one scan as _persist_signals receives them: one per market
\* (fetch_active_btc_markets keeps one market per slug), each stamped with
\* utcnow() when generate_btc_signal built it, up to 30 s before the call
ScannedNow ==
    [market_id : MarketIds, timestamp : {t \in {clock - 30, clock} : t >= 0},
     edge : {0, 5}]

ScanBatches ==
    {<<>>} \cup {<<a>> : a \in ScannedNow} \cup
    {p \in {<<a, b>> : a, b \in ScannedNow} : p[1].market_id # p[2].market_id}

\* mutant of ExistingSignal: the dedup query finds nothing
ExistingSignalNever(rows, sg) == FALSE

\* the dedup query of _persist_signals: a row of the same market whose
\* timestamp is not before the start of the signal's minute
ExistingSignal(rows, sg) ==
    \E i \in DOMAIN rows :
        /\ rows[i].market_ticker = sg.market_id
        /\ rows[i].timestamp >= minute_floor(sg.timestamp)

\* to_save = [s for s in signals if abs(s.edge) > 0]
ToSave(batch) == SelectSeq(batch, LAMBDA sg : Abs(sg.edge) > 0)

\* the for-loop of _persist_signals from position i: the rows after it and the
\* number of signals skipped
RECURSIVE PersistLoop(_, _, _, _)
PersistLoop(to_save, i, rows, skips) ==
    IF i > Len(to_save) THEN [rows |-> rows, skips |-> skips]
    ELSE IF ExistingSignal(rows, to_save[i])
      THEN PersistLoop(to_save, i + 1, rows, skips + 1)
    ELSE PersistLoop(to_save, i + 1,
                     Append(rows, [market_ticker |-> to_save[i].market_id,
                                   timestamp |-> to_save[i].timestamp,
                                   edge |-> to_save[i].edge]),
                     skips)

\* _persist_signals(signals) at the end of a scan_for_signals() call; it has
\* no suspension point.  commit_ok = FALSE: db.commit() raised and the batch
\* was rolled back.
PersistSignals(batch, commit_ok) ==
    /\ LET r == PersistLoop(ToSave(batch), 1, signals_db, 0)
       IN  /\ Len(r.rows) <= MaxSignalRows
           /\ signals_db' = IF commit_ok THEN r.rows ELSE signals_db
           /\ skipped' = Min(skipped + r.skips, 2)
    /\ UNCHANGED <<clock, event_log, market, candles, micro, generated, slugs, fault_event,
                kline_cache, kline_calls, listing, ws, recent>>
    /\ UNCHANGED trading_vars

\* 30 seconds pass
ClockTick ==
    /\ clock + 30 <= MaxClock
    /\ clock' = clock + 30
    /\ UNCHANGED <<signals_db, event_log, market, candles, micro, generated, slugs, skipped, fault_event,
                kline_cache, kline_calls, listing, ws, recent>>
    /\ UNCHANGED trading_vars

NextPersist ==
    \/ \E batch \in ScanBatches : \E commit_ok \in BOOLEAN :
          PersistSignals(batch, commit_ok)
    \/ ClockTick

\* scans persisting their signals while time passes
SpecPersist == Init /\ [][NextPersist]_vars

\* C12: signal dedup.  The Signal table never holds two rows with the same
\* market and the same minute of timestamp.
C12_SignalUnique ==
    \A i, j \in DOMAIN signals_db :
        (/\ i # j
         /\ signals_db[i].market_ticker = signals_db[j].market_ticker)
            => minute_floor(signals_db[i].timestamp) # minute_floor(signals_db[j].timestamp)

\* a second signal for a market and minute that already has a row was skipped
C12_Witness ==
    /\ skipped > 0
    /\ signals_db # <<>>

\* C13: winning_trades <= total_trades in every reachable BotState.
C13_WinsWithinTotal == state.winning_trades <= state.total_trades

\* -------------------------------------------------------------- log_event
\* mutant of TrimLog: pop() instead of pop(0), the newest event is dropped
RECURSIVE TrimLogNewest(_)
TrimLogNewest(log) ==
    IF Len(log) > MAX_LOG_SIZE THEN TrimLogNewest(SubSeq(log, 1, Len(log) - 1)) ELSE log

\* while len(event_log) > MAX_LOG_SIZE: event_log.pop(0)
RECURSIVE TrimLog(_)
TrimLog(log) ==
    IF Len(log) > MAX_LOG_SIZE THEN TrimLog(Tail(log)) ELSE log

\* log_event(event_type, message): the event is stamped with utcnow(); the
\* clock moves on by a second between two calls, so that the timestamp tells
\* the events apart
log_event(event_type) ==
    /\ clock < MaxLogged
    /\ event_log' = TrimLog(Append(event_log,
                                   [timestamp |-> clock, type |-> event_type]))
    /\ clock' = clock + 1
    /\ UNCHANGED <<signals_db, market, candles, micro, generated, slugs, skipped, fault_event,
                kline_cache, kline_calls, listing, ws, recent>>
    /\ UNCHANGED trading_vars

NextLog == log_event("info")

\* a sequence of log_event calls
SpecLog == Init /\ [][NextLog]_vars

\* C14: event log bound.  After clock calls the log holds the most recent
\* min(clock, 200) events, in the order they were logged.
C14_LogBounded ==
    /\ Len(event_log) = Min(clock, 200)
    /\ \A i \in 1..Len(event_log) :
          event_log[i].timestamp = clock - Len(event_log) + (i - 1)

\* more than 200 events were logged: the oldest are gone and the log is full
C14_Witness ==
    /\ Len(event_log) = 200
    /\ event_log[1].timestamp > 0

\* ------------------------------------------------------- the signal engine
\* Units.  RSI in tenths of a point; momentum, VWAP deviation and SMA crossover
\* in thousandths of a percent; an indicator opinion in [-1, +1] in units of
\* 1/30000; a weight in percent, so the composite in units of 1/3000000; a
\* probability or an edge of generate_btc_signal in units of 1/75000000
\* (0.50 + composite * 0.08 is then (37500000 + 2 * composite) exactly); a
\* venue price in percent (1 percent = 750000 units).  The arithmetic is exact;
\* the code's is in binary floating point.

\* settings.WEIGHT_RSI .. WEIGHT_MARKET_SKEW, in percent, and the filter
\* settings: read by generate_btc_signal, defined by no file of the source tree
WEIGHT_RSI == 20
WEIGHT_MOMENTUM == 35
WEIGHT_VWAP == 20
WEIGHT_SMA == 15
WEIGHT_MARKET_SKEW == 10
\* settings.MAX_ENTRY_PRICE, in percent
MAX_ENTRY_PRICE == 50
\* settings.MIN_TIME_REMAINING, settings.MAX_TIME_REMAINING, in seconds
MIN_TIME_REMAINING == 60
MAX_TIME_REMAINING == 240

\* max(-1.0, min(1.0, x))
Clamp1(x) == Max(-30000, Min(30000, x))

\* 1) RSI: mean reversion
rsi_signal(rsi) ==
    Clamp1(IF rsi < 300 THEN 15000 + (300 - rsi) * 100
           ELSE IF rsi > 700 THEN -15000 - (rsi - 700) * 100
           ELSE IF rsi < 450 THEN (450 - rsi) * 100
           ELSE IF rsi > 550 THEN -((rsi - 550) * 100)
           ELSE 0)

\* 2) momentum: (0.5 m1 + 0.35 m5 + 0.15 m15) / 0.10
momentum_signal(m) ==
    Clamp1((50 * m.momentum_1m + 35 * m.momentum_5m + 15 * m.momentum_15m) * 3)

\* 3) vwap_deviation / 0.05
vwap_signal(m) == Clamp1(m.vwap_deviation * 600)

\* 4) sma_crossover / 0.03
sma_signal(m) == Clamp1(m.sma_crossover * 1000)

\* 5) market skew, contrarian: -(up_price - 0.50) * 4
skew_signal(up_price) == Clamp1((50 - up_price) * 1200)

\* indicator_signs
IndicatorSigns(m) ==
    <<rsi_signal(m.rsi), momentum_signal(m), vwap_signal(m), sma_signal(m)>>

\* sum(1 for s in indicator_signs if s > 0.05)
UpVotes(m) == Cardinality({i \in 1..4 : IndicatorSigns(m)[i] > 1500})

\* sum(1 for s in indicator_signs if s < -0.05)
DownVotes(m) == Cardinality({i \in 1..4 : IndicatorSigns(m)[i] < -1500})

\* mutant of HasConvergence: the 3/4 of the docstring
HasConvergence3(m) == UpVotes(m) >= 3 \/ DownVotes(m) >= 3

\* has_convergence = up_votes >= 4 or down_votes >= 4
HasConvergence(m) == UpVotes(m) >= 4 \/ DownVotes(m) >= 4

\* the weighted composite
Composite(m, up_price) ==
    rsi_signal(m.rsi) * WEIGHT_RSI
    + momentum_signal(m) * WEIGHT_MOMENTUM
    + vwap_signal(m) * WEIGHT_VWAP
    + sma_signal(m) * WEIGHT_SMA
    + skew_signal(up_price) * WEIGHT_MARKET_SKEW

\* model_up_prob = max(0.42, min(0.58, 0.50 + composite * 0.08))
ModelUpProb(m, up_price) ==
    Max(31500000, Min(43500000, 37500000 + 2 * Composite(m, up_price)))

\* mutant of calculate_edge: the side with the smaller edge is chosen
calculate_edge_smaller(model_prob, market_price) ==
    LET up_edge == model_prob - market_price
        down_edge == (75000000 - model_prob) - (75000000 - market_price)
    IN  IF up_edge < down_edge THEN <<up_edge, "up">> ELSE <<down_edge, "down">>

\* calculate_edge(model_prob, market_price): <<edge, direction>>
calculate_edge(model_prob, market_price) ==
    LET up_edge == model_prob - market_price
        down_edge == (75000000 - model_prob) - (75000000 - market_price)
    IN  IF up_edge >= down_edge THEN <<up_edge, "up">> ELSE <<down_edge, "down">>

\* if not passes_filters: edge = 0.0
FilterEdge(edge, passes_filters) == IF passes_filters THEN edge ELSE 0

\* generate_btc_signal(market) with compute_btc_microstructure() returning m
\* (None: it failed or returned nothing) and calculate_kelly_size returning
\* suggested_size.  kind "none": the function returned None; "raised": it
\* raised (window_end - datetime.utcnow() is a TypeError when window_end
\* carries a time zone); "signal": the TradingSignal, with the locals
\* composite, up_votes, down_votes and raw_edge (edge before the filters).
generate_btc_signal(mk, m, suggested_size) ==
    IF m = None THEN [kind |-> "none"]
    ELSE IF mk.up_price < 2 \/ mk.up_price > 98 THEN [kind |-> "none"]
    ELSE
      LET mi == m[1]
          model_up_prob == ModelUpProb(mi, mk.up_price)
          ed == calculate_edge(model_up_prob, mk.up_price * 750000)
          direction == ed[2]
          entry_price == IF direction = "up" THEN mk.up_price ELSE mk.down_price
          time_ok == /\ MIN_TIME_REMAINING <= mk.time_remaining
                     /\ mk.time_remaining <= MAX_TIME_REMAINING
          passes_filters == /\ HasConvergence(mi)
                            /\ entry_price <= MAX_ENTRY_PRICE
                            /\ time_ok
      IN  IF mk.window_end_aware THEN [kind |-> "raised"]
          ELSE [kind |-> "signal",
                market_id |-> mk.market_id,
                model_probability |-> model_up_prob,
                market_probability |-> mk.up_price * 750000,
                edge |-> FilterEdge(ed[1], passes_filters),
                direction |-> direction,
                suggested_size |-> suggested_size,
                composite |-> Composite(mi, mk.up_price),
                up_votes |-> UpVotes(mi),
                down_votes |-> DownVotes(mi),
                raw_edge |-> ed[1],
                entry_price |-> entry_price,
                time_ok |-> time_ok]

\* ------------------------------------------------------ indicator kernel
\* division truncating toward zero: where the model cuts a float to its grid
Quot(a, b) == IF a >= 0 THEN a \div b ELSE -((-a) \div b)

RECURSIVE SumRange(_, _, _)
SumRange(f, lo, hi) == IF lo > hi THEN 0 ELSE f[lo] + SumRange(f, lo + 1, hi)

\* period of _compute_rsi as compute_btc_microstructure calls it
RSI_PERIOD == 14

\* candles compute_btc_microstructure needs
MIN_CANDLES == 20

\* the Wilder loop of _compute_rsi over deltas[i..]: the averages are
\* G / scale and L / scale
RECURSIVE Wilder(_, _, _, _, _)
Wilder(deltas, i, G, L, scale) ==
    IF i > Len(deltas) THEN [gain |-> G, loss |-> L]
    ELSE Wilder(deltas, i + 1,
                (RSI_PERIOD - 1) * G + Max(deltas[i], 0) * scale,
                (RSI_PERIOD - 1) * L + Max(-deltas[i], 0) * scale,
                RSI_PERIOD * scale)

\* 100 - 100 / (1 + avg_gain / avg_loss) = 100 * G / (G + L), in tenths, by
\* long division (three decimal digits of G / (G + L)); with no loss the
\* quotient is 1
RsiTenths(G, L) ==
    LET T == G + L
        d1 == (10 * G) \div T
        r1 == (10 * G) % T
        d2 == (10 * r1) \div T
        r2 == (10 * r1) % T
        d3 == (10 * r2) \div T
    IN  IF L = 0 THEN 1000 ELSE 100 * d1 + 10 * d2 + d3

\* mutant of rsi_value: 50 for a series that did not move
rsi_value_flat50(G, L) == IF G + L = 0 THEN 500 ELSE RsiTenths(G, L)

\* if avg_loss == 0: return 100.0; else 100 - 100 / (1 + avg_gain / avg_loss)
rsi_value(G, L) == IF L = 0 THEN 1000 ELSE RsiTenths(G, L)

\* _compute_rsi(closes, 14), in tenths
compute_rsi(closes) ==
    IF Len(closes) < RSI_PERIOD + 1 THEN 500
    ELSE
      LET deltas == [i \in 1..(Len(closes) - 1) |-> closes[i + 1] - closes[i]]
          gains == [i \in 1..RSI_PERIOD |-> Max(deltas[i], 0)]
          losses == [i \in 1..RSI_PERIOD |-> Max(-deltas[i], 0)]
          w == Wilder(deltas, RSI_PERIOD + 1, SumRange(gains, 1, RSI_PERIOD),
                      SumRange(losses, 1, RSI_PERIOD), RSI_PERIOD)
      IN  rsi_value(w.gain, w.loss)

\* pct_change(lookback), in thousandths of a percent
pct_change(closes, lookback) ==
    LET n == Len(closes)
    IN  IF n > lookback /\ closes[n - lookback] > 0
          THEN Quot((closes[n] - closes[n - lookback]) * 100000, closes[n - lookback])
          ELSE 0

\* vwap_deviation, in thousandths of a percent: vwap = S3 / (3 * V) with
\* S3 the sum of (high + low + close) * volume over the window
vwap_deviation(cs) ==
    LET n == Len(cs)
        lo == n - Min(30, n) + 1
        V == SumRange([i \in 1..n |-> cs[i].volume], lo, n)
        S3 == SumRange([i \in 1..n |-> (cs[i].high + cs[i].low + cs[i].close) * cs[i].volume],
                       lo, n)
    IN  IF V > 0
          THEN IF S3 > 0 THEN Quot((3 * V * cs[n].close - S3) * 100000, S3) ELSE 0
          ELSE 0

\* sma_crossover = (sma5 - sma15) / current_price * 100, in thousandths of a
\* percent (the series has at least MIN_CANDLES closes)
sma_crossover(closes) ==
    LET n == Len(closes)
        S5 == SumRange(closes, n - 4, n)
        S15 == SumRange(closes, n - 14, n)
    IN  IF closes[n] > 0 THEN Quot((3 * S5 - S15) * 100000, 15 * closes[n]) ELSE 0

\* compute_btc_microstructure() on the klines cs (None: not enough candles);
\* volatility feeds only the confidence and is left out
compute_btc_microstructure(cs) ==
    IF Len(cs) < MIN_CANDLES THEN None
    ELSE
      LET closes == [i \in 1..Len(cs) |-> cs[i].close]
      IN  Some([rsi |-> compute_rsi(closes),
                momentum_1m |-> pct_change(closes, 1),
                momentum_5m |-> pct_change(closes, 5),
                momentum_15m |-> pct_change(closes, 15),
                vwap_deviation |-> vwap_deviation(cs),
                sma_crossover |-> sma_crossover(closes)])

\* n one-minute candles whose closes start at `start` and move by `step` a
\* minute, high = low = close, unit volume
Linear(n, start, step) ==
    [i \in 1..n |-> [close |-> start + step * (i - 1), high |-> start + step * (i - 1),
                     low |-> start + step * (i - 1), volume |-> 1]]

\* 20 candles alternating +20 / -10 with a 5-dollar range and uneven volume
Zigzag ==
    [i \in 1..20 |-> [close |-> 50000 + 5 * i + (IF i % 2 = 0 THEN 15 ELSE 0),
                      high |-> 50005 + 5 * i + (IF i % 2 = 0 THEN 15 ELSE 0),
                      low |-> 49995 + 5 * i + (IF i % 2 = 0 THEN 15 ELSE 0),
                      volume |-> 1 + (i % 2)]]

\* closes all equal
IsFlat(cs) == \A i \in 1..Len(cs) : cs[i].close = cs[1].close /\ cs[i].high = cs[1].close
                                     /\ cs[i].low = cs[1].close

\* closes rising linearly
IsRising(cs) ==
    /\ Len(cs) >= 3
    /\ cs[2].close > cs[1].close
    /\ \A i \in 2..Len(cs) : cs[i].close - cs[i - 1].close = cs[2].close - cs[1].close

\* the kline series the scenarios use: flat at 50 000, linear rises of 1, 10
\* and 30 a minute, a linear fall, a zigzag, and the 15-candle rise
CandleSeries ==
    {Linear(20, 50000, 0), Linear(20, 50000, 1), Linear(20, 50000, 10),
     Linear(20, 50000, 30), Linear(20, 50000, -10), Zigzag, Linear(15, 50000, 10)}

\* the markets handed to generate_btc_signal: prices in percent, seconds from
\* utcnow() to window_end, and whether window_end carries a time zone
\* (_parse_event_to_btc_market: always, unless the venue's endDate has no offset)
BtcMarkets ==
    [market_id : {"540817"}, up_price : {1, 25, 45, 50, 55, 75, 99},
     down_price : {1, 25, 45, 50, 55, 75, 99}, time_remaining : {30, 150, 400},
     window_end_aware : BOOLEAN]

\* indicator values compute_btc_microstructure() may return
MomentumTriples ==
    {<<-200, -200, -200>>, <<0, 0, 0>>, <<10, 10, 10>>, <<200, -200, 0>>,
     <<200, 200, 200>>}

MicroValues ==
    {[rsi |-> r, momentum_1m |-> t[1], momentum_5m |-> t[2], momentum_15m |-> t[3],
      vwap_deviation |-> v, sma_crossover |-> c] :
        r \in {100, 400, 500, 600, 800, 1000}, t \in MomentumTriples,
        v \in {-100, 0, 1, 100}, c \in {-50, 0, 1, 50}}

\* one scan over one market is about to call generate_btc_signal
InitEngine ==
    /\ trades = <<>>
    /\ state = [bankroll |-> INITIAL_BANKROLL, total_trades |-> 0,
                winning_trades |-> 0, total_pnl |-> 0, is_running |-> TRUE]
    /\ scanning = [l \in Launchers |-> IF l = "sched" THEN 1 ELSE 0]
    /\ last_scan = "none"
    /\ run = [l \in Launchers |-> IdleRun]
    /\ matured = {}
    /\ venue = [t \in Tickers |-> [closed |-> FALSE, up_price |-> 50]]
    /\ credited = [i \in 1..MaxTrades |-> 0]
    /\ clock = 0
    /\ signals_db = <<>>
    /\ event_log = <<>>
    /\ market \in {Some(mk) : mk \in {x \in BtcMarkets : x.down_price = 100 - x.up_price}}
    /\ \/ /\ candles = <<>>
          /\ micro \in {None} \cup {Some(m) : m \in MicroValues}
       \/ /\ candles \in CandleSeries
          /\ micro = compute_btc_microstructure(candles)
    /\ generated = None
    /\ slugs = <<>>
    /\ skipped = 0
    /\ fault_event = NoFault
    /\ kline_cache = EmptyCache
    /\ kline_calls = [c \in KlineCallers |-> IdleCall]
    /\ listing = None
    /\ ws = NoClient
    /\ recent = None

\* one percent, in the unit of the engine's probabilities and edges
EdgeUnit == 750000

\* TradingSignal.passes_threshold on a signal of generate_btc_signal
passes_threshold_btc(g) == Abs(g.edge) >= MIN_EDGE_THRESHOLD * EdgeUnit

\* the list scan_for_signals() returns for the one market: the signal if the
\* call returned one (None is skipped, an exception is logged and skipped)
Returned(g) == IF g.kind = "signal" THEN <<g>> ELSE <<>>

\* scan_for_signals() over the one market: generate_btc_signal(market), then
\* _persist_signals(signals)
ScanForSignals(suggested_size) ==
    /\ generated = None
    /\ LET g == generate_btc_signal(market[1], micro, suggested_size)
           batch == [k \in 1..Len(Returned(g)) |->
                        [market_id |-> g.market_id, timestamp |-> clock,
                         edge |-> g.edge]]
       IN  /\ generated' = Some(g)
           /\ signals_db' = PersistLoop(ToSave(batch), 1, signals_db, 0).rows
    /\ UNCHANGED <<clock, event_log, market, candles, micro, slugs, skipped, fault_event,
                kline_cache, kline_calls, listing, ws, recent>>
    /\ UNCHANGED trading_vars

\* the part of scan_and_trade_job after `await scan_for_signals()` when the
\* signals carry a BtcMarket: the loop reads signal.market.ticker, which a
\* BtcMarket does not have, so the first actionable signal that reaches the
\* loop raises AttributeError; the session is closed without a commit and the
\* job logs "Scan error".
ScanTradeBtc(signals, tr, st) ==
    LET actionable == SelectSeq(signals, passes_threshold_btc)
        same(msg) == [trades |-> tr, state |-> st, event |-> msg]
    IN  IF actionable = <<>> THEN same("no_actionable")
        ELSE IF BotPaused(st) THEN same("paused")
        ELSE IF PendingCount(tr) >= MAX_TOTAL_PENDING_TRADES THEN same("max_pending")
        ELSE same("scan_error")

\* the scan that called scan_for_signals() runs its trade section
ScanFinishBtc ==
    /\ generated # None
    /\ scanning["sched"] > 0
    /\ LET r == ScanTradeBtc(Returned(generated[1]), trades, state)
       IN  /\ trades' = r.trades
           /\ state' = r.state
           /\ last_scan' = r.event
    /\ scanning' = [scanning EXCEPT !["sched"] = @ - 1]
    /\ UNCHANGED <<run, matured, venue, credited>>
    /\ UNCHANGED engine_vars

NextEngine ==
    \/ \E suggested_size \in {0, 5000} : ScanForSignals(suggested_size)
    \/ ScanFinishBtc

\* one market through scan_for_signals and the trade section of the scan
SpecEngine == InitEngine /\ [][NextEngine]_vars

\* ------------------------------------------------------------------ C15
\* the three entry filters of generate_btc_signal on market mk and
\* indicators mi: at least one of them fails
AnyFilterFails(mk, mi) ==
    LET direction == calculate_edge(ModelUpProb(mi, mk.up_price),
                                    mk.up_price * EdgeUnit)[2]
        entry_price == IF direction = "up" THEN mk.up_price ELSE mk.down_price
    IN  \/ ~HasConvergence(mi)
        \/ entry_price > MAX_ENTRY_PRICE
        \/ mk.time_remaining < MIN_TIME_REMAINING
        \/ mk.time_remaining > MAX_TIME_REMAINING

\* C15: when the indicators are available, the market is unresolved and one
\* of the three entry filters fails, the scan still returns the signal, with
\* edge = 0; the signal is not actionable and no trade is created from it.
C15_FiltersGate ==
    (/\ generated # None
     /\ micro # None
     /\ market[1].up_price >= 2
     /\ market[1].up_price <= 98
     /\ AnyFilterFails(market[1], micro[1]))
        => /\ generated[1].kind = "signal"
           /\ generated[1].edge = 0
           /\ ~passes_threshold_btc(generated[1])
           /\ trades = <<>>

\* ------------------------------------------------------------------ C16
\* C16: for every indicator input and every market up_price, model_up lies in
\* [0.42, 0.58]; the direction calculate_edge chooses is the side with the
\* larger of up-edge = model_up - up_price and down-edge = (1 - model_up) -
\* (1 - up_price), and the edge it reports is that side's edge (the signal's
\* edge field is this edge, or 0 when a filter failed).
C16_ProbBoundsDirection ==
    (micro # None)
        => LET model_up == ModelUpProb(micro[1], market[1].up_price)
               up_price == market[1].up_price * EdgeUnit
               up_edge == model_up - up_price
               down_edge == (100 * EdgeUnit - model_up) - (100 * EdgeUnit - up_price)
               ed == calculate_edge(model_up, up_price)
           IN  /\ model_up >= 42 * EdgeUnit
               /\ model_up <= 58 * EdgeUnit
               /\ ed[2] = "up" => (up_edge >= down_edge /\ ed[1] = up_edge)
               /\ ed[2] = "down" => (down_edge >= up_edge /\ ed[1] = down_edge)
               /\ ed[2] \in {"up", "down"}
               /\ (generated # None /\ generated[1].kind = "signal")
                      => /\ generated[1].model_probability = model_up
                         /\ generated[1].direction = ed[2]
                         /\ generated[1].raw_edge = ed[1]
                         /\ generated[1].edge \in {ed[1], 0}

\* a signal was generated with model_up at the lower bound 0.42, the down
\* side chosen at up_price 0.75, and its edge 0.58 - 0.25 kept by the filters
C16_Witness ==
    /\ generated # None
    /\ generated[1].kind = "signal"
    /\ generated[1].model_probability = 42 * EdgeUnit
    /\ generated[1].direction = "down"
    /\ generated[1].edge = 33 * EdgeUnit

\* ------------------------------------------------------------------ C17
\* the unchanged-BTC scenario: at least MIN_CANDLES candles, all closes
\* equal, venue up_price 0.50
FlatScenario ==
    /\ Len(candles) >= MIN_CANDLES
    /\ IsFlat(candles)
    /\ market[1].up_price = 50
    /\ market[1].down_price = 50

\* C17 as stated: in the unchanged-BTC scenario (RSI 100, every other
\* indicator 0, up_price 0.50) the composite is 0, model_up is 0.50, the edge
\* is 0 and no trade results.
C17_FlatAsStated ==
    FlatScenario
        => /\ micro = Some([rsi |-> 1000, momentum_1m |-> 0, momentum_5m |-> 0,
                            momentum_15m |-> 0, vwap_deviation |-> 0,
                            sma_crossover |-> 0])
           /\ Composite(micro[1], 50) = 0
           /\ ModelUpProb(micro[1], 50) = 50 * EdgeUnit
           /\ (generated # None /\ generated[1].kind = "signal") => generated[1].edge = 0
           /\ trades = <<>>

\* C17 amended: in the unchanged-BTC scenario RSI is 100 and every other
\* indicator is 0; the RSI opinion is -1, so the composite is -0.20 and
\* model_up is 0.484; calculate_edge picks down with edge 0.016; one
\* indicator of four votes, so the convergence filter fails: a returned
\* signal has edge 0 and is not actionable, and no trade results.
C17_FlatScenario ==
    FlatScenario
        => /\ micro = Some([rsi |-> 1000, momentum_1m |-> 0, momentum_5m |-> 0,
                            momentum_15m |-> 0, vwap_deviation |-> 0,
                            sma_crossover |-> 0])
           /\ rsi_signal(micro[1].rsi) = -30000
           /\ Composite(micro[1], 50) = -(30000 * WEIGHT_RSI)
           /\ ModelUpProb(micro[1], 50) = 50 * EdgeUnit - 2 * 30000 * WEIGHT_RSI
           /\ calculate_edge(ModelUpProb(micro[1], 50), 50 * EdgeUnit)
                 = <<2 * 30000 * WEIGHT_RSI, "down">>
           /\ UpVotes(micro[1]) = 0
           /\ DownVotes(micro[1]) = 1
           /\ ~HasConvergence(micro[1])
           /\ (generated # None /\ generated[1].kind = "signal")
                 => /\ generated[1].edge = 0
                    /\ generated[1].direction = "down"
                    /\ ~passes_threshold_btc(generated[1])
           /\ trades = <<>>
           /\ last_scan \in {"none", "no_actionable"}

\* the scenario's signal was returned and the scan's trade section has run
C17_Witness ==
    /\ FlatScenario
    /\ generated # None
    /\ generated[1].kind = "signal"
    /\ generated[1].raw_edge > 0
    /\ last_scan = "no_actionable"

\* ------------------------------------------------------------------ C18
\* the strong-up-move scenario: at least MIN_CANDLES candles, closes rising
\* linearly, venue up_price 0.45
RisingScenario ==
    /\ Len(candles) >= MIN_CANDLES
    /\ IsRising(candles)
    /\ market[1].up_price = 45

\* RSI > 70, the three momentum values, the VWAP deviation and the SMA
\* crossover positive
RisingIndicators(mi) ==
    /\ mi.rsi > 700
    /\ mi.momentum_1m > 0
    /\ mi.momentum_5m > 0
    /\ mi.momentum_15m > 0
    /\ mi.vwap_deviation > 0
    /\ mi.sma_crossover > 0

SlugEpoch == 1771000200

\* str(n) of the f-string: the decimal digits of a non-negative integer
RECURSIVE Digits(_)
Digits(n) == IF n < 10 THEN <<n>> ELSE Append(Digits(n \div 10), n % 10)

\* the integer a digit string denotes
RECURSIVE IntOf(_)
IntOf(ds) == IF ds = <<>> THEN 0 ELSE 10 * IntOf(SubSeq(ds, 1, Len(ds) - 1)) + ds[Len(ds)]

\* f"btc-updown-5m-{end_ts}"
FormatSlug(end_ts) == [prefix |-> "btc-updown-5m-", digits |-> Digits(end_ts)]

\* is_valid_btc_slug: ^btc-updown-5m-\d{10}$
is_valid_btc_slug(slug) ==
    /\ slug.prefix = "btc-updown-5m-"
    /\ Len(slug.digits) = 10
    /\ \A i \in 1..Len(slug.digits) : slug.digits[i] \in 0..9

\* mutant of round_to_5min: rounds to the nearest boundary
round_to_5min_nearest(ts) == ((ts + 150) \div 300) * 300

\* _round_to_5min(ts) = int(ts) // 300 * 300; ts is int(time.time()), the
\* conversion dropping the fraction of the second
round_to_5min(ts) == (ts \div 300) * 300

\* _compute_window_slugs(count) at time now
compute_window_slugs(count, now) ==
    LET next_boundary == round_to_5min(now) + 300
    IN  [i \in 1..count |-> FormatSlug(next_boundary + (i - 1) * 300)]

\* slugs fetch_active_btc_markets asks for
SLUG_COUNT == 6

\* fetch_active_btc_markets() computes its expected slugs
ComputeWindowSlugs ==
    /\ slugs' = Some([now |-> clock, slugs |-> compute_window_slugs(SLUG_COUNT, clock)])
    /\ UNCHANGED <<clock, signals_db, event_log, market, candles, micro, generated, skipped, fault_event,
                kline_cache, kline_calls, listing, ws, recent>>
    /\ UNCHANGED trading_vars

\* a second passes
SecondTick ==
    /\ clock < SlugEpoch + MaxSlugTicks
    /\ clock' = clock + 1
    /\ UNCHANGED <<signals_db, event_log, market, candles, micro, generated, slugs, skipped, fault_event,
                kline_cache, kline_calls, listing, ws, recent>>
    /\ UNCHANGED trading_vars

InitSlugs ==
    /\ trades = <<>>
    /\ state = [bankroll |-> INITIAL_BANKROLL, total_trades |-> 0,
                winning_trades |-> 0, total_pnl |-> 0, is_running |-> TRUE]
    /\ scanning = [l \in Launchers |-> 0]
    /\ last_scan = "none"
    /\ run = [l \in Launchers |-> IdleRun]
    /\ matured = {}
    /\ venue = [t \in Tickers |-> [closed |-> FALSE, up_price |-> 50]]
    /\ credited = [i \in 1..MaxTrades |-> 0]
    /\ clock = SlugEpoch - 3
    /\ signals_db = <<>>
    /\ event_log = <<>>
    /\ market = None
    /\ candles = <<>>
    /\ micro = None
    /\ generated = None
    /\ slugs = None
    /\ skipped = 0
    /\ fault_event = NoFault
    /\ kline_cache = EmptyCache
    /\ kline_calls = [c \in KlineCallers |-> IdleCall]
    /\ listing = None
    /\ ws = NoClient
    /\ recent = None

NextSlugs ==
    \/ ComputeWindowSlugs
    \/ SecondTick

\* the slug enumeration called at any second across a window boundary
SpecSlugs == InitSlugs /\ [][NextSlugs]_vars

\* ------------------------------------------------------------------ C19
\* C19: called at clock value now, the enumeration yields exactly the six
\* slugs btc-updown-5m-<floor(now/300)*300 + 300*(i+1)>, i in 0..5; every
\* slug is valid, and the end timestamp read back from it is a multiple of
\* 300, strictly greater than now, and 300 after the previous one.
C19_SlugEnumeration ==
    slugs # None
        => LET now == slugs[1].now
               list == slugs[1].slugs
           IN  /\ Len(list) = 6
               /\ \A i \in 1..Len(list) :
                     /\ list[i] = FormatSlug((now \div 300) * 300 + 300 * i)
                     /\ is_valid_btc_slug(list[i])
                     /\ IntOf(list[i].digits) % 300 = 0
                     /\ IntOf(list[i].digits) > now
                     /\ i > 1 => IntOf(list[i].digits) - IntOf(list[i - 1].digits) = 300

\* the enumeration ran in the last second of a window: the first slug ends
\* one second later
C19_Witness ==
    /\ slugs # None
    /\ slugs[1].now % 300 = 299
    /\ IntOf(slugs[1].slugs[1].digits) = slugs[1].now + 1

\* ------------------------------------------------------- failing jobs
\* where an invocation of scan_and_trade_job can fail: nowhere, in
\* scan_for_signals(), at SessionLocal() or a query, with no BotState row,
\* inside the trade loop after its inserts, or at db.commit()
ScanFaults == {"none", "scan", "session", "no_state", "loop", "commit"}

\* mutant of SessionClose: what the session held is kept without a commit
SessionCloseKeeps(committed, before, after) == after

\* finally: db.close() -- what the session changed and did not commit is
\* discarded
SessionClose(committed, before, after) == IF committed THEN after ELSE before

\* mutant of ScanJobOutcome: a scan that raised loses its inserts but keeps
\* its changes to the BotState row
ScanJobOutcomeKeepsState(signals, tr, st, fault) ==
    LET r == ScanTrade(signals, tr, st)
        same(msg) == [trades |-> tr, state |-> st, event |-> msg]
        reached_loop == r.event \in {"executed", "no_new"}
        raised == fault \in {"loop", "commit"} /\ reached_loop
        committed == reached_loop /\ ~raised
    IN  IF fault = "scan" THEN same("scan_error")
        ELSE IF Actionable(signals) = <<>> THEN same("no_actionable")
        ELSE IF fault = "session" THEN same("scan_error")
        ELSE IF fault = "no_state" THEN same("no_state")
        ELSE [trades |-> SessionClose(committed, tr, r.trades),
              state |-> r.state,
              event |-> IF raised THEN "scan_error" ELSE r.event]

\* scan_and_trade_job after `await scan_for_signals()` with a failure at
\* `fault`: the table, the BotState row and the last event logged.  An
\* exception is caught by the job's `except Exception` ("Scan error").
ScanJobOutcome(signals, tr, st, fault) ==
    LET r == ScanTrade(signals, tr, st)
        same(msg) == [trades |-> tr, state |-> st, event |-> msg]
        reached_loop == r.event \in {"executed", "no_new"}
        raised == fault \in {"loop", "commit"} /\ reached_loop
        committed == reached_loop /\ ~raised
    IN  IF fault = "scan" THEN same("scan_error")
        ELSE IF Actionable(signals) = <<>> THEN same("no_actionable")
        ELSE IF fault = "session" THEN same("scan_error")
        ELSE IF fault = "no_state" THEN same("no_state")
        ELSE [trades |-> SessionClose(committed, tr, r.trades),
              state |-> SessionClose(committed, st, r.state),
              event |-> IF raised THEN "scan_error" ELSE r.event]

\* an invocation of scan_and_trade_job runs to its end
ScanJob(l, signals, fault) ==
    /\ scanning[l] > 0
    /\ LET r == ScanJobOutcome(signals, trades, state, fault)
       IN  /\ Len(r.trades) <= MaxTrades
           /\ trades' = r.trades
           /\ state' = r.state
           /\ last_scan' = r.event
    /\ scanning' = [scanning EXCEPT ![l] = @ - 1]
    /\ UNCHANGED <<run, matured, venue, credited>>
    /\ UNCHANGED engine_vars

\* the failure recorded for an invocation
Failed(job, fault, launcher) ==
    [job |-> job, fault |-> fault, launcher |-> launcher, seq |-> 1 - fault_event.seq]

UnchangedButFault ==
    UNCHANGED <<clock, signals_db, event_log, market, candles, micro, generated, slugs,
                skipped,
                kline_cache, kline_calls, listing, ws, recent>>

\* settlement_job: the pending-count query (or SessionLocal()) raises; the
\* job's `except Exception` logs "Settlement error"
SettleCountFails ==
    /\ run["sched"].pc = "idle"
    /\ fault_event' = Failed("settlement", "count", "sched")
    /\ UnchangedButFault
    /\ UNCHANGED trading_vars

\* mutant of FinishFault: the batch survives the failed commit of
\* settle_pending_trades (no rollback, the settled list returned and credited)
FinishFaultKeepsBatch(r, done, fault) ==
    /\ done # <<>>
    /\ trades' = Commit(trades, done)
    /\ state' = IF fault = "commit" THEN ApplySettlements(state, done, 1) ELSE state
    /\ UNCHANGED credited
    /\ run' = [run EXCEPT ![r] = IdleRun]
    /\ fault_event' = Failed("settlement", fault, r)

\* the end of a settlement run when a commit raises.  "commit": db.commit()
\* of settle_pending_trades raises, the batch is rolled back and [] returned.
\* "state": the commit of update_bot_state_with_settlements raises after the
\* trades were committed; the exception is logged and the BotState changes
\* are rolled back.
FinishFault(r, done, fault) ==
    /\ done # <<>>
    /\ trades' = IF fault = "state" THEN Commit(trades, done) ELSE trades
    /\ UNCHANGED <<state, credited>>
    /\ run' = [run EXCEPT ![r] = IdleRun]
    /\ fault_event' = Failed("settlement", fault, r)

\* the loop ran from position i to the end of the list, then a commit raised
ContinueFault(r, pend, i, done, fault) ==
    LET res == SettleLoop(pend, i, done)
    IN  /\ ~res.suspended
        /\ FinishFault(r, res.settled, fault)

\* a settlement run that begins and ends in one step, a commit raising
SettleStartFault(r, fault) ==
    /\ \A q \in Launchers : run[q].pc = "idle"
    /\ PendingCount(trades) > 0
    /\ ContinueFault(r, SettleQuery(trades), 1, <<>>, fault)
    /\ UNCHANGED <<scanning, last_scan, matured, venue>>
    /\ UnchangedButFault

\* a run resumes from `await fetch_weather_actual(...)`, finishes its loop,
\* and a commit raises
SettleResumeFault(r, actual, old, fault) ==
    /\ run[r].pc = "await"
    /\ LET id == run[r].pending[run[r].idx]
           trade == trades[id]
           outcome == FetchOutcome(id, trade, actual, old)
           done == IF outcome = None THEN run[r].settled
                   ELSE Append(run[r].settled, SettledEntry(id, trade, outcome[1]))
       IN  ContinueFault(r, run[r].pending, run[r].idx + 1, done, fault)
    /\ UNCHANGED <<scanning, last_scan, matured, venue>>
    /\ UnchangedButFault

\* heartbeat_job with no BotState row ("no_state": a warning is logged) or
\* with SessionLocal() or a query raising ("db": `except Exception` logs
\* "Heartbeat failed"); it only reads
HeartbeatFails(fault) ==
    /\ fault_event' = Failed("heartbeat", fault, "sched")
    /\ UnchangedButFault
    /\ UNCHANGED trading_vars

\* what scan_for_signals() returns in the failure specification: at most
\* one signal
FaultSignalLists == {sl \in SignalLists : Len(sl) <= 1}

NextFaults ==
    \/ ScanTick
    \/ \E l \in Launchers : \E signals \in FaultSignalLists : \E fault \in ScanFaults :
          ScanJob(l, signals, fault)
    \/ \E ticker \in Tickers : Mature(ticker)
    \/ \E r \in Launchers : SettleStart(r, TRUE)
    \/ \E r \in Launchers : \E actual \in ActualTemps : \E old \in BOOLEAN :
          SettleResume(r, actual, old)
    \/ SettleCountFails
    \/ \E r \in Launchers : \E fault \in {"commit", "state"} : SettleStartFault(r, fault)
    \/ \E r \in Launchers : \E actual \in ActualTemps : \E old \in BOOLEAN :
          \E fault \in {"commit", "state"} : SettleResumeFault(r, actual, old, fault)
    \/ \E fault \in {"no_state", "db"} : HeartbeatFails(fault)

\* the three jobs with failures injected, settlement runs one at a time
SpecFaults == Init /\ [][NextFaults]_vars

\* ------------------------------------------------------------------ C20
\* C20: a failure inside a job does not outlive the invocation.  A scan that
\* ended with "Scan error" or "Bot state not initialized" leaves the Trade
\* table and the BotState row as they were (its uncommitted inserts are
\* gone) and frees its instance, so the next tick of the trigger runs.  A
\* settlement run whose count query or trade commit raised changes nothing,
\* one whose BotState commit raised leaves the BotState row as it was, and
\* either way the run is over and the next one can begin.  A failing
\* heartbeat changes nothing.
C20_ErrorContainment ==
    [][/\ \A l \in Launchers :
             (scanning'[l] = scanning[l] - 1 /\ last_scan' \in {"scan_error", "no_state"})
                => /\ trades' = trades
                   /\ state' = state
                   /\ l = "sched" => scanning'["sched"] < MAX_INSTANCES
       /\ fault_event'.seq # fault_event.seq
             => /\ state' = state
                /\ fault_event'.fault # "state" => trades' = trades
                /\ scanning' = scanning
                /\ fault_event'.job = "settlement"
                      => run'[fault_event'.launcher].pc = "idle"
                /\ fault_event'.job = "heartbeat" => run' = run]_vars

\* a settlement run lost its batch to a failed commit, leaving its trade
\* pending, and the scan after it ended with "Scan error"; no instance is
\* left running
C20_Witness ==
    /\ last_scan = "scan_error"
    /\ fault_event.job = "settlement"
    /\ fault_event.fault = "commit"
    /\ PendingCount(trades) > 0
    /\ \A l \in Launchers : scanning[l] = 0
    /\ \A r \in Launchers : run[r].pc = "idle"

\* ------------------------------------------------------- trade sizing
\* scans over a range of bankrolls (in cents) and suggested sizes: below the
\* minimum trade size, between it and the cap, and above the cap
SizeSignals ==
    {s \in [ticker : Tickers, direction : {"yes", "up"}, yes_price : {60}, edge : {5},
            suggested_size : {500, 5000, 100000}, model_probability : {5500}] :
        s.direction \in DirectionsOf(s.ticker)}

InitSize ==
    /\ trades = <<>>
    /\ state \in [bankroll : {1500, 2000, 10000, 39900, 40000, 100000, INITIAL_BANKROLL},
                  total_trades : {0}, winning_trades : {0}, total_pnl : {0},
                  is_running : {TRUE}]
    /\ scanning = [l \in Launchers |-> IF l = "direct" THEN 1 ELSE 0]
    /\ last_scan = "none"
    /\ run = [l \in Launchers |-> IdleRun]
    /\ matured = {}
    /\ venue = [t \in Tickers |-> [closed |-> FALSE, up_price |-> 50]]
    /\ credited = [i \in 1..MaxTrades |-> 0]
    /\ EngineIdle

NextSize ==
    \/ ScanTick
    \/ \E l \in Launchers : \E signal \in SizeSignals : ScanFinish(l, <<signal>>)

\* scans at a bankroll that no settlement changes
SpecSize == InitSize /\ [][NextSize]_vars

\* ------------------------------------------------------------------ C22
\* C22: every trade a scan inserted has size >= MIN_TRADE_SIZE and
\* size <= bankroll * MAX_TRADE_FRACTION (the bankroll is the one the scan
\* read: nothing changes it in this specification).
C22_SizeBounds ==
    \A i \in DOMAIN trades :
        /\ trades[i].size >= MIN_TRADE_SIZE
        /\ trades[i].size * 100 <= state.bankroll * MAX_TRADE_FRACTION

\* ------------------------------------------------------- per-scan cap
\* seven markets of one category, so that a scan can find more actionable
\* signals than it may execute
CapTickers ==
    {[id |-> d, city |-> None, threshold |-> None, series |-> "", dated |-> FALSE,
      category |-> "other"] : d \in {"540811", "540812", "540813", "540814", "540815",
                                     "540816", "540817"}}

\* the k-th of the seven markets, k in 1..7
CapTicker(k) ==
    CHOOSE t \in CapTickers :
        t.id = <<"540811", "540812", "540813", "540814", "540815", "540816", "540817">>[k]

\* what scan_for_signals() returns here: up to eight signals, each actionable
\* or not, on seven distinct markets (the eighth repeats the first) or all on
\* the first three markets
CapSignalLists ==
    UNION {{[i \in 1..n |->
               [ticker |-> CapTicker(((i - 1) % m) + 1), direction |-> "up",
                yes_price |-> 60, edge |-> e[i], suggested_size |-> 5000,
                model_probability |-> 5500]] : e \in [1..n -> {0, 5}], m \in {3, 7}}
           : n \in 0..MaxCapSignals}

\* an invocation of scan_and_trade_job runs its trade section on `signals`
ScanCapped(l, signals) ==
    /\ scanning[l] > 0
    /\ LET r == ScanTrade(signals, trades, state)
       IN  /\ trades' = r.trades
           /\ state' = r.state
           /\ last_scan' = r.event
    /\ scanning' = [scanning EXCEPT ![l] = @ - 1]
    /\ UNCHANGED <<run, matured, venue, credited>>
    /\ UNCHANGED engine_vars

NextCap ==
    \/ ScanTick
    \/ \E l \in Launchers : \E signals \in CapSignalLists : ScanCapped(l, signals)

\* scans that find up to ten signals
SpecCap == Init /\ [][NextCap]_vars

\* ------------------------------------------------------------------ C23
\* C23: one invocation of scan_and_trade_job inserts at most
\* MAX_TRADES_PER_SCAN trades, however many actionable signals it was given
\* and however many of them it skipped.
C23_PerScanCap ==
    [][Len(trades') - Len(trades) <= MAX_TRADES_PER_SCAN]_vars

\* a scan executed MAX_TRADES_PER_SCAN trades
C23_Witness ==
    /\ last_scan = "executed"
    /\ Len(trades) = MAX_TRADES_PER_SCAN
    /\ state.total_trades = MAX_TRADES_PER_SCAN

\* ------------------------------------------------------------------ C24
\* C24: when the commit of a settlement batch fails, the whole batch is
\* rolled back: every trade is as it was before the run (the trades of the
\* batch still unsettled, with their prior result and pnl), bankroll,
\* total_pnl and winning_trades are unchanged, and the next run's pending
\* query returns the same trades again.
C24_CommitFailureRollsBack ==
    [][(fault_event'.seq # fault_event.seq /\ fault_event'.fault = "commit")
          => /\ trades' = trades
             /\ state' = state
             /\ credited' = credited
             /\ PendingIds(trades') # {}
             /\ SettleQuery(trades') = SettleQuery(trades)
             /\ run'[fault_event'.launcher].pc = "idle"]_vars

\* a batch was lost to a failed commit, and a later run settled the same
\* trade and credited it once
C24_Witness ==
    /\ fault_event.job = "settlement"
    /\ fault_event.fault = "commit"
    /\ Len(trades) = 1
    /\ trades[1].settled
    /\ trades[1].pnl # None
    /\ credited[1] = 1
    /\ state.bankroll = INITIAL_BANKROLL + trades[1].pnl[1]

\* ------------------------------------------------------- trade counter
NextCount ==
    \/ ScanTick
    \/ \E l \in Launchers : \E signals \in FaultSignalLists : \E fault \in ScanFaults :
          ScanJob(l, signals, fault)
    \/ \E signal \in Signals : SimulateTrade(signal)
    \/ \E ticker \in Tickers : Mature(ticker)
    \/ \E r \in Launchers : SettleStart(r, TRUE)
    \/ \E r \in Launchers : \E actual \in ActualTemps : \E old \in BOOLEAN :
          SettleResume(r, actual, old)

\* the two writers of the Trade table (the scan job, with failures, and
\* POST /api/simulate-trade) next to settlement, which writes the BotState row
SpecCount == Init /\ [][NextCount]_vars

\* ------------------------------------------------------------------ C25
\* C25: in every committed state BotState.total_trades equals the number of
\* Trade rows ever inserted, by the scan job or by simulate-trade (rows are
\* never deleted, so that is the length of the table); a scan that fails
\* before its commit leaves both unchanged.
C25_TotalTradesCounts ==
    state.total_trades = Len(trades)

\* two trades are in the table and counted, and the last scan failed
C25_Witness ==
    /\ Len(trades) = 2
    /\ state.total_trades = 2
    /\ last_scan = "scan_error"

\* ------------------------------------------------------- the kline cache
\* _CACHE_TTL, in seconds
CACHE_TTL == 30

\* the exchanges fetch_binance_klines tries, in order
KlineSources == <<"binance", "bybit", "coinbase", "kraken">>

\* fetch_binance_klines up to its first await: now = time.time(), then the
\* cached candles are returned when they are younger than the TTL, else the
\* request to Binance is sent
KlineCall(c) ==
    /\ kline_calls[c].pc = "idle"
    /\ IF kline_cache.data # None /\ clock - kline_cache.ts < CACHE_TTL
       THEN UNCHANGED kline_calls
       ELSE kline_calls' = [kline_calls EXCEPT ![c] = [pc |-> "fetching", now |-> clock,
                                                       tried |-> 1]]
    /\ UNCHANGED <<clock, kline_cache>>
    /\ UNCHANGED <<signals_db, event_log, market, candles, micro, generated, slugs, skipped,
                   fault_event, listing, ws, recent>>
    /\ UNCHANGED trading_vars

\* the request to the exchange being tried returns.  ok: the candles are
\* stored with the caller's `now` and the exchange's name, and returned.
\* Otherwise the next exchange is tried, and after the last None is returned.
\* The candles are named by the time and the call of their fetch.
KlineFetched(c, ok) ==
    /\ kline_calls[c].pc = "fetching"
    /\ LET call == kline_calls[c]
           source == KlineSources[call.tried]
       IN  IF ok
           THEN /\ kline_cache' = [data |-> Some([at |-> clock, started |-> call.now,
                                                  by |-> c, source |-> source]),
                                   ts |-> call.now, source |-> source]
                /\ kline_calls' = [kline_calls EXCEPT ![c] = IdleCall]
           ELSE /\ kline_calls' = [kline_calls EXCEPT ![c] =
                                     IF call.tried < Len(KlineSources)
                                     THEN [call EXCEPT !.tried = @ + 1]
                                     ELSE IdleCall]
                /\ UNCHANGED kline_cache
    /\ UNCHANGED clock
    /\ UNCHANGED <<signals_db, event_log, market, candles, micro, generated, slugs, skipped,
                   fault_event, listing, ws, recent>>
    /\ UNCHANGED trading_vars

\* ten seconds pass
KlineTick ==
    /\ clock + 10 <= MaxClock
    /\ clock' = clock + 10
    /\ UNCHANGED <<kline_cache, kline_calls>>
    /\ UNCHANGED <<signals_db, event_log, market, candles, micro, generated, slugs, skipped,
                   fault_event, listing, ws, recent>>
    /\ UNCHANGED trading_vars

NextKline ==
    \/ \E c \in KlineCallers : KlineCall(c)
    \/ \E c \in KlineCallers : \E ok \in BOOLEAN : KlineFetched(c, ok)
    \/ KlineTick

\* two coroutines calling fetch_binance_klines
SpecKline == Init /\ [][NextKline]_vars

\* the cached candles, exchange name and timestamp come from one fetch
CacheConsistent ==
    kline_cache.data # None
        => /\ kline_cache.source = kline_cache.data[1].source
           /\ kline_cache.ts = kline_cache.data[1].started

\* candles that a call would return from the cache now were fetched less
\* than the TTL ago
CacheFresh ==
    (kline_cache.data # None /\ clock - kline_cache.ts < CACHE_TTL)
        => clock - kline_cache.data[1].at < CACHE_TTL

\* ------------------------------------------------------------------ C26
\* C26: the candle cache has a single writer.  When two callers miss at
\* overlapping times, only the first to complete writes the cache: a caller
\* whose fetch returns after another caller stored candles during its call
\* leaves the cache as it is.  The cached candles, source tag and timestamp
\* always come from the same successful fetch, and an entry is never served
\* more than 30 seconds after its fetch.
C26_CacheSingleWriter ==
    /\ [](CacheConsistent /\ CacheFresh)
    /\ [][\A c \in KlineCallers :
             (/\ kline_calls[c].pc = "fetching"
              /\ kline_calls'[c].pc = "idle"
              /\ kline_cache.data # None
              /\ kline_cache.data[1].by # c
              /\ kline_cache.data[1].at >= kline_calls[c].now)
                => kline_cache' = kline_cache]_vars

\* ------------------------------------------------------- the stopped bot
\* POST /api/bot/stop was served while trades of earlier scans are pending
InitStop ==
    /\ trades \in {<<NewTrade(sg, TradeSize(sg, INITIAL_BANKROLL))>> : sg \in Signals}
    /\ state = [bankroll |-> INITIAL_BANKROLL, total_trades |-> 1,
                winning_trades |-> 0, total_pnl |-> 0, is_running |-> FALSE]
    /\ scanning = [l \in Launchers |-> 0]
    /\ last_scan = "none"
    /\ run = [l \in Launchers |-> IdleRun]
    /\ matured = {}
    /\ venue = [t \in Tickers |-> [closed |-> FALSE, up_price |-> 50]]
    /\ credited = [i \in 1..MaxTrades |-> 0]
    /\ EngineIdle

\* the scheduler's jobs and POST /api/bot/start; the weather archive has the
\* temperature of every day that is over
NextStop ==
    \/ ScanTick
    \/ \E l \in Launchers : \E signals \in FaultSignalLists : ScanFinish(l, signals)
    \/ StartBot
    \/ \E ticker \in Tickers : Mature(ticker)
    \/ \E r \in Launchers : SettleStart(r, FALSE)
    \/ \E r \in Launchers : \E actual \in ActualTemps \ {None} : \E old \in BOOLEAN :
          SettleResume(r, actual, old)

\* start_scheduler's IntervalTrigger(minutes=15) runs settlement_job again
\* and again, and a request to the archive returns
SpecStop ==
    /\ InitStop
    /\ [][NextStop]_vars
    /\ WF_vars(SettleStart("sched", FALSE))
    /\ WF_vars(\E r \in Launchers : \E actual \in ActualTemps \ {None} : \E old \in BOOLEAN :
                  SettleResume(r, actual, old))

\* check_market_settlement can decide the trade: its market's day is over,
\* or its ticker carries no date
Resolved(trade) == CheckKind(trade) # "not_yet"

SpecCredit ==
    /\ Init
    /\ [][NextFaults]_vars
    /\ WF_vars(SettleStart("sched", TRUE))
    /\ WF_vars(\E r \in Launchers : \E actual \in ActualTemps : \E old \in BOOLEAN :
                  SettleResume(r, actual, old))

\* ------------------------------------------------------------------ C28
\* C28: every trade committed as settled with a pnl eventually has that pnl
\* reflected in bankroll and total_pnl, even when the BotState update of its
\* run failed or found no BotState row: the credit is applied by a later run.
C28_SettledEventuallyCredited ==
    \A i \in 1..MaxTrades :
        (i \in DOMAIN trades /\ trades[i].settled /\ trades[i].pnl # None)
            ~> (credited[i] >= 1)

\* ------------------------------------------------------- reading the log
\* Python's seq[start:] for an integer start of either sign
SliceFrom(seq, start) ==
    LET from == IF start < 0 THEN Max(Len(seq) + start, 0) ELSE Min(start, Len(seq))
    IN  SubSeq(seq, from + 1, Len(seq))

\* get_recent_events: event_log[-limit:]
get_recent_events(limit) == SliceFrom(event_log, -limit)

\* the limits a caller passes: the websocket handler's 20 and 200, the
\* default 50 of GET /api/events, and query values from 0 to beyond the log size
EventLimits == {0, 1, 20, 50, 200, 250}

\* a call get_recent_events(limit); the answer is kept with the clock and the
\* log's length at the call
GetRecentEvents(limit) ==
    /\ recent' = Some([limit |-> limit, at |-> clock, len |-> Len(event_log),
                       events |-> get_recent_events(limit)])
    /\ UNCHANGED <<clock, signals_db, event_log, market, candles, micro, generated, slugs,
                   skipped, fault_event, kline_cache, kline_calls, listing, ws>>
    /\ UNCHANGED trading_vars

NextEvents ==
    \/ log_event("info")
    \/ \E limit \in EventLimits : GetRecentEvents(limit)

\* events logged and the log read
SpecEvents == Init /\ [][NextEvents]_vars

\* ------------------------------------------------------------------ C30
\* C30: get_recent_events(limit) returns, for every limit >= 0 and every
\* state of the log, exactly the min(limit, len(event_log)) most recent
\* events, in log order.
C30_RecentEvents ==
    recent # None
        => LET r == recent[1]
               n == Min(r.limit, r.len)
           IN  /\ Len(r.events) = n
               /\ \A i \in 1..Len(r.events) :
                     r.events[i].timestamp = r.at - Len(r.events) + (i - 1)

\* ------------------------------------------------------- /ws/events
\* the sizes of the log at which a client connects: empty, short, about to
\* fill up, and full
ConnectLogSizes == {0, 1, 30, 199, 200}

\* websocket.send_json(event) for events[i..]: the client expects the events
\* logged since it connected one by one; `delivered` is the timestamp of the
\* next one it has not been sent
RECURSIVE WsSend(_, _, _)
WsSend(w, events, i) ==
    IF i > Len(events) THEN w
    ELSE LET ts == events[i].timestamp
         IN  WsSend([w EXCEPT !.delivered = IF ts >= @ THEN ts + 1 ELSE @,
                              !.missed = @ \/ ts > w.delivered,
                              !.repeated = @ \/ (ts < w.delivered /\ ts >= w.connected_at)],
                    events, i + 1)

\* len(get_recent_events(200))
EventCount == Len(get_recent_events(200))

\* websocket_events up to its first await after the snapshot
\* get_recent_events(20): the connection is accepted, the greeting sent and
\* the sending of the snapshot begun; with an empty snapshot the handler
\* goes on to take last_event_count and to sleep
WsConnect ==
    /\ ws.pc = "closed"
    /\ Len(event_log) \in ConnectLogSizes
    /\ ws' = [pc |-> IF get_recent_events(20) = <<>> THEN "polling" ELSE "initial",
              last_event_count |-> IF get_recent_events(20) = <<>> THEN EventCount ELSE 0,
              connected_at |-> clock, delivered |-> clock,
              missed |-> FALSE, repeated |-> FALSE]
    /\ UNCHANGED <<clock, signals_db, event_log, market, candles, micro, generated, slugs,
                   skipped, fault_event, kline_cache, kline_calls, listing, recent>>
    /\ UNCHANGED trading_vars

\* the snapshot has been sent: last_event_count = len(get_recent_events(200)),
\* then asyncio.sleep(2)
WsInitialSent ==
    /\ ws.pc = "initial"
    /\ ws' = [ws EXCEPT !.pc = "polling", !.last_event_count = EventCount]
    /\ UNCHANGED <<clock, signals_db, event_log, market, candles, micro, generated, slugs,
                   skipped, fault_event, kline_cache, kline_calls, listing, recent>>
    /\ UNCHANGED trading_vars

\* one round of the loop after asyncio.sleep(2): the events beyond
\* last_event_count are sent, then the heartbeat
WsPoll ==
    /\ ws.pc = "polling"
    /\ LET current_events == get_recent_events(200)
           new_events == SliceFrom(current_events,
                                   ws.last_event_count - Len(current_events))
       IN  ws' = IF Len(current_events) > ws.last_event_count
                 THEN [WsSend(ws, new_events, 1) EXCEPT
                          !.last_event_count = Len(current_events)]
                 ELSE ws
    /\ UNCHANGED <<clock, signals_db, event_log, market, candles, micro, generated, slugs,
                   skipped, fault_event, kline_cache, kline_calls, listing, recent>>
    /\ UNCHANGED trading_vars

NextWs ==
    \/ log_event("info")
    \/ WsConnect
    \/ WsInitialSent
    \/ WsPoll

\* events are logged while one client is connected; the handler's sends
\* return and its sleep ends
SpecWs ==
    /\ Init
    /\ [][NextWs]_vars
    /\ WF_vars(WsInitialSent)
    /\ WF_vars(WsPoll)

\* ------------------------------------------------------------------ C29
\* C29: every event logged after a client connected is eventually sent to
\* it, exactly once and in log order, while the connection stays open and
\* whatever the size of the log (a full log of 200 included): no event is
\* passed over or sent twice, and once logging has come to rest the client
\* is eventually sent every event logged since it connected.
C29_EveryEventDelivered ==
    /\ [](~ws.missed /\ ~ws.repeated)
    /\ (ws.pc # "closed" /\ clock = MaxLogged) ~> (ws.delivered = MaxLogged)

\* ------------------------------------------------------- the window listing
\* The venue's answers are inputs.  An event is kept as the BtcMarket that
\* _parse_event_to_btc_market makes of it, cut down to slug, closed and
\* window_end (the second of endDate, and whether the string carried a UTC
\* offset: fromisoformat returns an aware datetime then, a naive one otherwise).

\* event.get("slug", "") of an event without a slug
NoSlug == [prefix |-> "", digits |-> <<>>]

\* what GET /events?slug=<slug> can answer, as fetch_btc_market_by_slug sees
\* it: nothing (no event, an event without markets, or an exception), the
\* open or the closed event of that slug, or an event that carries no slug
BySlugKinds == {"none", "open", "closed", "unnamed"}

BySlugAnswer(slug, kind) ==
    IF kind = "none" THEN None
    ELSE Some([slug |-> IF kind = "unnamed" THEN NoSlug ELSE slug,
               closed |-> kind = "closed",
               window_end |-> [ts |-> IntOf(slug.digits), aware |-> TRUE]])

\* the answers to the six requests: the first two of any kind, the other four
\* alike, all open or all missing
BySlugAnswers ==
    {k \in [1..SLUG_COUNT -> BySlugKinds] :
        /\ k[3] \in {"none", "open"}
        /\ \A i \in 3..SLUG_COUNT : k[i] = k[3]}

\* what the series search can answer: an exception, no event, or one
\* event: a further window, the first expected window again, a 15-minute
\* market, a closed window, or a window whose endDate has no UTC offset
SeriesKinds == {"raises", "empty", "further", "again", "quarter", "closed", "naive"}

SeriesAnswer(now, kind) ==
    LET next_boundary == round_to_5min(now) + 300
        ev(slug, closed, ts, aware) ==
            [slug |-> slug, closed |-> closed, window_end |-> [ts |-> ts, aware |-> aware]]
    IN  CASE kind = "raises" -> None
          [] kind = "empty" -> Some(<<>>)
          [] kind = "further" ->
                Some(<<ev(FormatSlug(next_boundary + 1800), FALSE, next_boundary + 1800, TRUE)>>)
          [] kind = "again" ->
                Some(<<ev(FormatSlug(next_boundary), FALSE, next_boundary, TRUE)>>)
          [] kind = "quarter" ->
                Some(<<ev([prefix |-> "btc-updown-15m-", digits |-> Digits(next_boundary + 600)],
                          FALSE, next_boundary + 600, TRUE)>>)
          [] kind = "closed" ->
                Some(<<ev(FormatSlug(next_boundary - 300), TRUE, next_boundary - 300, TRUE)>>)
          [] kind = "naive" ->
                Some(<<ev(FormatSlug(next_boundary + 2100), FALSE, next_boundary + 2100, FALSE)>>)

Slugs(markets) == {markets[k].slug : k \in DOMAIN markets}

\* fetch_btc_market_by_slug: the requested slug is validated, the answer is
\* parsed and returned as it is
fetch_btc_market_by_slug(slug, answer) ==
    IF ~is_valid_btc_slug(slug) THEN None ELSE answer

\* Method 1: the loop over expected_slugs from position i
RECURSIVE DirectFetch(_, _, _, _)
DirectFetch(expected_slugs, answers, i, markets) ==
    IF i > Len(expected_slugs) THEN markets
    ELSE LET found == fetch_btc_market_by_slug(expected_slugs[i], answers[i])
         IN  DirectFetch(expected_slugs, answers, i + 1,
                         IF found # None /\ found[1].slug \notin Slugs(markets)
                         THEN Append(markets, found[1]) ELSE markets)

\* Method 2: the loop over the events of the series search from position i
RECURSIVE SeriesSearch(_, _, _)
SeriesSearch(events, i, markets) ==
    IF i > Len(events) THEN markets
    ELSE SeriesSearch(events, i + 1,
                      IF events[i].slug \notin Slugs(markets)
                            /\ is_valid_btc_slug(events[i].slug)
                      THEN Append(markets, events[i]) ELSE markets)

\* list.sort(key=lambda m: m.window_end): stable, ascending
RECURSIVE SortByWindowEnd(_)
SortByWindowEnd(markets) ==
    IF markets = <<>> THEN <<>>
    ELSE LET n == Len(markets)
             rest == SortByWindowEnd(SubSeq(markets, 1, n - 1))
             last == markets[n]
             keep == Cardinality({k \in DOMAIN rest :
                                     rest[k].window_end.ts <= last.window_end.ts})
         IN  SubSeq(rest, 1, keep) \o <<last>> \o SubSeq(rest, keep + 1, Len(rest))

\* comparing an aware with a naive datetime raises TypeError
SortRaises(markets) ==
    \E i, j \in DOMAIN markets : markets[i].window_end.aware # markets[j].window_end.aware

\* fetch_active_btc_markets at time now
fetch_active_btc_markets(now, answers, series) ==
    LET expected_slugs == compute_window_slugs(SLUG_COUNT, now)
        direct == DirectFetch(expected_slugs,
                              [i \in 1..SLUG_COUNT |->
                                  BySlugAnswer(expected_slugs[i], answers[i])],
                              1, <<>>)
        markets == IF series = None THEN direct ELSE SeriesSearch(series[1], 1, direct)
    IN  IF SortRaises(markets)
        THEN [outcome |-> "raised", markets |-> <<>>]
        ELSE [outcome |-> "returned",
              markets |-> SelectSeq(SortByWindowEnd(markets), LAMBDA m : ~m.closed)]

\* a call of fetch_active_btc_markets
FetchActive(answers, kind) ==
    /\ listing' = Some(fetch_active_btc_markets(clock, answers, SeriesAnswer(clock, kind)))
    /\ UNCHANGED <<clock, signals_db, event_log, market, candles, micro, generated, slugs,
                   skipped, fault_event, kline_cache, kline_calls, ws, recent>>
    /\ UNCHANGED trading_vars

\* a minute passes
MinuteTick ==
    /\ clock + 60 <= SlugEpoch + MaxSlugTicks
    /\ clock' = clock + 60
    /\ UNCHANGED <<signals_db, event_log, market, candles, micro, generated, slugs, skipped,
                   fault_event, kline_cache, kline_calls, listing, ws, recent>>
    /\ UNCHANGED trading_vars

NextListing ==
    \/ MinuteTick
    \/ \E answers \in BySlugAnswers : \E kind \in SeriesKinds : FetchActive(answers, kind)

\* the window listing called minute after minute across a window boundary
SpecListing == InitSlugs /\ [][NextListing]_vars

\* ------------------------------------------------------------------ C21
\* C21: every window the active-window listing returns has a slug matching
\* ^btc-updown-5m-\d{10}$ (an entry of either discovery path that does not
\* match is rejected), no two returned windows share a slug, none is closed,
\* and the list is sorted by window end, ascending.
C21_ListingWellFormed ==
    (listing # None /\ listing[1].outcome = "returned")
        => LET markets == listing[1].markets
           IN  /\ \A i \in DOMAIN markets : is_valid_btc_slug(markets[i].slug)
               /\ \A i, j \in DOMAIN markets : i # j => markets[i].slug # markets[j].slug
               /\ \A i \in DOMAIN markets : ~markets[i].closed
               /\ \A i, j \in DOMAIN markets :
                     i < j => markets[i].window_end.ts <= markets[j].window_end.ts

====
